---- MODULE Spec2Model ----
(***************************************************************************)
(* A model of semantic-code-mcp: the filter builder, the hybrid search     *)
(* pipeline with its keyword fallback and keyword boost, the path          *)
(* utilities, the vector store's write path, the indexer, the LRU cache    *)
(* and the grammar loader.                                                 *)
(*                                                                         *)
(* Strings are sequences of one-character strings, so that replacing,      *)
(* validating and concatenating are computed character by character as the *)
(* TypeScript code computes them.                                          *)
(***************************************************************************)
EXTENDS Integers, Sequences, FiniteSets, TLC

VARIABLES
    fPath,      \* filter builder: options.path (<<>> when absent or '')
    fPattern,   \* filter builder: options.filePattern (<<>> when absent or '')
    fOp,        \* filter builder: the function that was applied ("none" before)
    fOut,       \* filter builder: what the call returned or threw
    store,      \* the vector store's records (a Map keyed by id: ids are unique)
    sFn,        \* search: the entry point that was called ("none" before)
    sOpts,      \* search: the options of the call
    sPc,        \* search: where the call is suspended
    sEmbed,     \* search: what embedQuery did ("none", "ok" or the error's name)
    sFilter,    \* search: the predicate built for the pending store call
    sCands,     \* search: vectorResults (a set) and boostedResults (a sequence)
    sLog,       \* search: the store, embedder and reranker calls made, in order
    sOut,       \* search: what the call returned or threw
    sMetrics,   \* search: the samples given to metrics.recordSearch
    sProgress,  \* search: the onProgress messages, in order
    sWrites,    \* search: writes by the indexer while the call was in flight
    chunkIds,   \* paths: the pathToChunkId calls made, with their results
    wIn,        \* paths: the arguments of the isWithinRoot call
    wOut,       \* paths: what isWithinRoot returned ("none" before the call)
    stLog,      \* store: the write calls made directly, with the store around them
    disk,       \* indexer: the content of each file under the root (0: no file)
    queue,      \* indexer: the debounced events of each path waiting for a worker
    task,       \* indexer: the ingestion task of each path
    events,     \* indexer: how many events were delivered
    ingested,   \* indexer: the hash each path was last ingested with, and how often
    lastWrite,  \* indexer: the last store write made for each path, and its event
    phase,      \* lifecycle: "running", "stopping" (shutdown began) or "closed"
    lateOps,    \* lifecycle: the store calls made after close(), with their outcome
    cMax,       \* cache: maxSize
    cTtl,       \* cache: ttlMs (NoTtl when not configured)
    cNow,       \* cache: Date.now()
    cMap,       \* cache: the Map's entries [key, value, timestamp] in insertion order
    cLog,       \* cache: the calls made, in order, with what they returned
    bScale,     \* boost: the factor the weighted sum is scaled by (in score units)
    bQuery,     \* boost: the query given to boostKeywordMatches
    bIn,        \* boost: the candidates given to boostKeywordMatches
    bOut,       \* boost: what boostKeywordMatches returned, and whether it has
    initialized,    \* grammars: whether the WASM runtime has been initialized
    languageCache,  \* grammars: the loaded grammar of each cached WASM file name
    lCalls,     \* grammars: the loadLanguage calls, each with its position and result
    lLoads      \* grammars: the grammar objects Parser.Language.load made, by name

filterVars == <<fPath, fPattern, fOp, fOut>>

searchVars == <<sFn, sOpts, sPc, sEmbed, sFilter, sCands, sLog, sOut, sMetrics,
                sProgress, sWrites>>

pathVars == <<chunkIds, wIn, wOut>>

indexVars == <<disk, queue, task, events, ingested, lastWrite>>

lifeVars == <<phase, lateOps>>

cacheVars == <<cMax, cTtl, cNow, cMap, cLog>>

boostVars == <<bScale, bQuery, bIn, bOut>>

loaderVars == <<initialized, languageCache, lCalls, lLoads>>

\* what the filter builder's calls leave alone
notFilterVars == <<store, searchVars, pathVars, stLog, indexVars, lifeVars,
                   cacheVars, boostVars, loaderVars>>

\* what a search leaves alone, the store apart
notSearchVars == <<filterVars, pathVars, stLog, indexVars, lifeVars,
                   cacheVars, boostVars, loaderVars>>

\* what the path utilities leave alone
notPathVars == <<filterVars, store, searchVars, stLog, indexVars, lifeVars,
                 cacheVars, boostVars, loaderVars>>

\* what a direct store call leaves alone, the store apart
notStoreVars == <<filterVars, searchVars, pathVars, indexVars, lifeVars,
                  cacheVars, boostVars, loaderVars>>

\* what the indexer's events and tasks leave alone, the store apart
notIndexVars == <<filterVars, searchVars, pathVars, stLog, lifeVars,
                  cacheVars, boostVars, loaderVars>>

\* what the cache's calls leave alone
notCacheVars == <<filterVars, store, searchVars, pathVars, stLog, indexVars,
                  lifeVars, boostVars, loaderVars>>

vars == <<filterVars, store, searchVars, pathVars, stLog, indexVars,
          lifeVars, cacheVars, boostVars, loaderVars>>

\* no path utility was called
PathsIdle ==
    /\ chunkIds = <<>>
    /\ wIn = <<>>
    /\ wOut = "none"

\* no direct store call was made
StoreIdle == stLog = <<>>

\* no indexer runs
IndexIdle ==
    /\ disk = <<>>
    /\ queue = <<>>
    /\ task = {}
    /\ events = 0
    /\ ingested = <<>>
    /\ lastWrite = <<>>

\* no shutdown was asked for
LifeIdle ==
    /\ phase = "running"
    /\ lateOps = <<>>

\* ttlMs: number | undefined
NoTtl == [defined |-> FALSE, ms |-> 0]
Ttl(ms) == [defined |-> TRUE, ms |-> ms]

\* no cache was made
CacheIdle ==
    /\ cMax = 0
    /\ cTtl = NoTtl
    /\ cNow = 0
    /\ cMap = <<>>
    /\ cLog = <<>>

\* what boostKeywordMatches returned, once it has
NotBoosted == [done |-> FALSE, results |-> <<>>]
Boosted(results) == [done |-> TRUE, results |-> results]

\* boostKeywordMatches was not called
BoostIdle ==
    /\ bScale = 0
    /\ bQuery = <<>>
    /\ bIn = <<>>
    /\ bOut = NotBoosted

\* no grammar was asked for
LoaderIdle ==
    /\ initialized = FALSE
    /\ languageCache = <<>>
    /\ lCalls = <<>>
    /\ lLoads = <<>>

-----------------------------------------------------------------------------
(* Characters *)

LowerChars == {"a", "b", "c", "d", "e", "f", "g", "h", "i", "j", "k", "l", "m",
               "n", "o", "p", "q", "r", "s", "t", "u", "v", "w", "x", "y", "z"}

UpperChars == {"A", "B", "C", "D", "E", "F", "G", "H", "I", "J", "K", "L", "M",
               "N", "O", "P", "Q", "R", "S", "T", "U", "V", "W", "X", "Y", "Z"}

DigitChars == {"0", "1", "2", "3", "4", "5", "6", "7", "8", "9"}

LowerSeq == <<"a", "b", "c", "d", "e", "f", "g", "h", "i", "j", "k", "l", "m",
              "n", "o", "p", "q", "r", "s", "t", "u", "v", "w", "x", "y", "z">>

UpperSeq == <<"A", "B", "C", "D", "E", "F", "G", "H", "I", "J", "K", "L", "M",
              "N", "O", "P", "Q", "R", "S", "T", "U", "V", "W", "X", "Y", "Z">>

\* String.prototype.toLowerCase on one character
ToLowerChar(c) ==
    IF c \in UpperChars
    THEN LowerSeq[CHOOSE i \in 1..26 : UpperSeq[i] = c]
    ELSE c

ToLower(s) == [i \in 1..Len(s) |-> ToLowerChar(s[i])]

\* s.startsWith(prefix)
StartsWith(s, prefix) ==
    /\ Len(prefix) <= Len(s)
    /\ \A i \in 1..Len(prefix) : s[i] = prefix[i]

\* s.slice(n): what follows the first n characters
DropFirst(s, n) == [i \in 1..(Len(s) - n) |-> s[i + n]]

\* the string of n copies of character c
Rep(c, n) == [i \in 1..n |-> c]

\* every string over alphabet A of length at most n
StringsUpTo(A, n) == UNION {[1..k -> A] : k \in 0..n}

DigitSeq == <<"0", "1", "2", "3", "4", "5", "6", "7", "8", "9">>

\* `${startLine}`: the decimal digits of a natural number
RECURSIVE Decimal(_)
Decimal(n) ==
    IF n < 10 THEN <<DigitSeq[n + 1]>>
    ELSE Decimal(n \div 10) \o <<DigitSeq[(n % 10) + 1]>>

-----------------------------------------------------------------------------
(* search/filter-builder.ts *)

\* SAFE_PATTERN's character class [a-zA-Z0-9_\-%]
IsSafeChar(c) == c \in LowerChars \cup UpperChars \cup DigitChars \cup {"_", "-", "%"}

MAX_FILTER_VALUE_LENGTH == 500

validateFilterPattern_TooLong(pattern) ==
    /\ Len(pattern) >= 1
    /\ \A i \in 1..Len(pattern) : IsSafeChar(pattern[i])

validateFilterPattern_Quote(pattern) ==
    /\ Len(pattern) <= MAX_FILTER_VALUE_LENGTH
    /\ Len(pattern) >= 1
    /\ \A i \in 1..Len(pattern) : IsSafeChar(pattern[i]) \/ pattern[i] = "'"

\* validateFilterPattern: length <= 500 and /^[a-zA-Z0-9_\-%]+$/
validateFilterPattern(pattern) ==
    /\ Len(pattern) <= MAX_FILTER_VALUE_LENGTH
    /\ Len(pattern) >= 1
    /\ \A i \in 1..Len(pattern) : IsSafeChar(pattern[i])

\* .replace(/[\\\/]/g, '_').replace(/\./g, '_')
ReplaceSepAndDot(s) ==
    [i \in 1..Len(s) |-> IF s[i] \in {"/", "\\", "."} THEN "_" ELSE s[i]]

\* .replace(/\*\*/g, '%'): leftmost non-overlapping pairs of stars
ReplaceDoubleStar(s) ==
    LET \* the stars right before position i
        StarsBefore(i) ==
            CHOOSE k \in 0..(i - 1) :
                /\ \A j \in (i - k)..(i - 1) : s[j] = "*"
                /\ k = i - 1 \/ s[i - k - 1] # "*"
        \* what position i leaves in the result ("": the second star of a pair)
        Piece(i) ==
            IF s[i] # "*" THEN s[i]
            ELSE IF StarsBefore(i) % 2 = 1 THEN ""
            ELSE IF i < Len(s) /\ s[i + 1] = "*" THEN "%"
            ELSE "*"
        Kept(c) == c # ""
    IN  SelectSeq([i \in 1..Len(s) |-> Piece(i)], Kept)

\* .replace(/\*/g, '%').replace(/\?/g, '_')
ReplaceStarAndQuestion(s) ==
    [i \in 1..Len(s) |-> IF s[i] = "*" THEN "%" ELSE IF s[i] = "?" THEN "_" ELSE s[i]]

\* the five replacements of sanitizeGlobPattern, in order
GlobToLike(pattern) ==
    ReplaceSepAndDot(ReplaceStarAndQuestion(ReplaceDoubleStar(pattern)))

\* a call's outcome: a returned string, a returned undefined, or a thrown error
Returned(s) == [kind |-> "return", defined |-> TRUE, value |-> s, error |-> "none"]
ReturnedUndefined == [kind |-> "return", defined |-> FALSE, value |-> <<>>, error |-> "none"]
Thrown(e) == [kind |-> "throw", defined |-> FALSE, value |-> <<>>, error |-> e]
NoOutcome == [kind |-> "none", defined |-> FALSE, value |-> <<>>, error |-> "none"]

\* no filter builder call is being examined
FilterIdle ==
    /\ fPath = <<>>
    /\ fPattern = <<>>
    /\ fOp = "none"
    /\ fOut = NoOutcome

sanitizePathPattern(path) ==
    LET sanitized == ReplaceSepAndDot(path)
    IN  IF ~validateFilterPattern(sanitized)
        THEN Thrown("InvalidFilterError")
        ELSE Returned(sanitized)

sanitizeGlobPattern(pattern) ==
    LET sanitized == GlobToLike(pattern)
    IN  IF ~validateFilterPattern(sanitized)
        THEN Thrown("InvalidFilterError")
        ELSE Returned(sanitized)

\* fixed builder text
TxtIdLike == <<"i", "d", " ", "L", "I", "K", "E", " ", "'">>
TxtLanguageEq == <<"l", "a", "n", "g", "u", "a", "g", "e", " ", "=", " ", "'">>
TxtQuote == <<"'">>
TxtPercent == <<"%">>
TxtAnd == <<" ", "A", "N", "D", " ">>

\* `id LIKE '${sanitized}%'`
buildPathLikeCondition(pathPattern) ==
    LET r == sanitizePathPattern(pathPattern)
    IN  IF r.kind = "throw" THEN r
        ELSE Returned(TxtIdLike \o r.value \o TxtPercent \o TxtQuote)

\* `language = '${language}'` after /^[a-z]+$/
buildLanguageCondition(language) ==
    IF ~(Len(language) >= 1 /\ \A i \in 1..Len(language) : language[i] \in LowerChars)
    THEN Thrown("InvalidFilterError")
    ELSE Returned(TxtLanguageEq \o language \o TxtQuote)

\* `id LIKE '%${sanitized}'`
buildFilePatternCondition(pattern) ==
    LET r == sanitizeGlobPattern(pattern)
    IN  IF r.kind = "throw" THEN r
        ELSE Returned(TxtIdLike \o TxtPercent \o r.value \o TxtQuote)

LangTypescript == <<"t", "y", "p", "e", "s", "c", "r", "i", "p", "t">>
LangJavascript == <<"j", "a", "v", "a", "s", "c", "r", "i", "p", "t">>
LangPython == <<"p", "y", "t", "h", "o", "n">>
LangGo == <<"g", "o">>
LangRust == <<"r", "u", "s", "t">>

\* EXTENSION_TO_LANGUAGE as a set of <<extension, language>> pairs
EXTENSION_TO_LANGUAGE ==
    { <<<<".", "t", "s">>, LangTypescript>>,
      <<<<".", "t", "s", "x">>, LangTypescript>>,
      <<<<".", "j", "s">>, LangJavascript>>,
      <<<<".", "j", "s", "x">>, LangJavascript>>,
      <<<<".", "m", "j", "s">>, LangJavascript>>,
      <<<<".", "c", "j", "s">>, LangJavascript>>,
      <<<<".", "p", "y">>, LangPython>>,
      <<<<".", "p", "y", "w">>, LangPython>>,
      <<<<".", "g", "o">>, LangGo>>,
      <<<<".", "r", "s">>, LangRust>> }

KnownExtension(ext) == \E e \in EXTENSION_TO_LANGUAGE : e[1] = ext
LanguageOf(ext) == (CHOOSE e \in EXTENSION_TO_LANGUAGE : e[1] = ext)[2]

\* filePattern.match(/^\*(\.[a-z]+)$/i)
IsExtensionPattern(p) ==
    /\ Len(p) >= 3
    /\ p[1] = "*"
    /\ p[2] = "."
    /\ \A i \in 3..Len(p) : p[i] \in LowerChars \cup UpperChars

\* conditions.join(' AND ')
RECURSIVE JoinAnd(_)
JoinAnd(conds) ==
    IF Len(conds) = 0 THEN <<>>
    ELSE IF Len(conds) = 1 THEN conds[1]
    ELSE conds[1] \o TxtAnd \o JoinAnd(Tail(conds))

\* the conditions buildSafeFilter pushes for options.path
SafePathConditions(path) ==
    IF Len(path) > 0 THEN <<buildPathLikeCondition(path)>> ELSE <<>>

\* the conditions buildSafeFilter pushes for options.filePattern
SafePatternConditions(filePattern) ==
    IF Len(filePattern) = 0 THEN <<>>
    ELSE IF IsExtensionPattern(filePattern)
         THEN LET ext == ToLower(DropFirst(filePattern, 1))
              IN  IF KnownExtension(ext)
                  THEN <<buildLanguageCondition(LanguageOf(ext))>>
                  ELSE <<>>
         ELSE <<buildFilePatternCondition(filePattern)>>

\* the first throw among the pushed conditions aborts the call; otherwise
\* the joined predicate, or undefined when no condition was pushed
FinishFilter(conds) ==
    IF \E i \in 1..Len(conds) : conds[i].kind = "throw"
    THEN conds[CHOOSE i \in 1..Len(conds) :
                   /\ conds[i].kind = "throw"
                   /\ \A j \in 1..(i - 1) : conds[j].kind # "throw"]
    ELSE IF Len(conds) = 0 THEN ReturnedUndefined
    ELSE Returned(JoinAnd([i \in 1..Len(conds) |-> conds[i].value]))

buildSafeFilter(path, filePattern) ==
    FinishFilter(SafePathConditions(path) \o SafePatternConditions(filePattern))

-----------------------------------------------------------------------------
(* the earlier search module (src/unnamed/part_001): buildFilter *)

\* .replace(/'/g, "''")
RECURSIVE DoubleQuotes(_)
DoubleQuotes(s) ==
    IF Len(s) = 0 THEN <<>>
    ELSE IF Len(s) = 1 THEN (IF s[1] = "'" THEN <<"'", "'">> ELSE s)
    ELSE LET half == Len(s) \div 2
         IN  DoubleQuotes(SubSeq(s, 1, half)) \o DoubleQuotes(SubSeq(s, half + 1, Len(s)))

LegacyPathConditions(path) ==
    IF Len(path) > 0
    THEN <<Returned(TxtIdLike \o DoubleQuotes(ReplaceSepAndDot(path)) \o TxtPercent \o TxtQuote)>>
    ELSE <<>>

LegacyPatternConditions(filePattern) ==
    IF Len(filePattern) = 0 THEN <<>>
    ELSE IF IsExtensionPattern(filePattern)
         THEN LET ext == ToLower(DropFirst(filePattern, 1))
              IN  IF KnownExtension(ext)
                  THEN <<Returned(TxtLanguageEq \o LanguageOf(ext) \o TxtQuote)>>
                  ELSE <<>>
         ELSE <<Returned(TxtIdLike \o TxtPercent \o DoubleQuotes(GlobToLike(filePattern)) \o TxtQuote)>>

buildFilter(path, filePattern) ==
    FinishFilter(LegacyPathConditions(path) \o LegacyPatternConditions(filePattern))

-----------------------------------------------------------------------------
(* The vector store (tests/mocks/embedder.mock.ts: MockVectorStore) *)

\* a VectorRecord: the fields the model reads
Rec(id, filePath, language, contentHash) ==
    [id |-> id, filePath |-> filePath, language |-> language, contentHash |-> contentHash]

UpsertOne_KeepsOld(st, r) == st \cup {r}

\* this.records.set(record.id, record)
UpsertOne(st, r) == {x \in st : x.id # r.id} \cup {r}

\* upsert(records): the records are set one after the other
RECURSIVE upsert(_, _)
upsert(st, records) ==
    IF Len(records) = 0 THEN st
    ELSE upsert(UpsertOne(st, Head(records)), Tail(records))

deleteByFilePath_ComparesId(st, filePath) == {x \in st : x.id # filePath}

\* deleteByFilePath(filePath)
deleteByFilePath(st, filePath) == {x \in st : x.filePath # filePath}

\* isEmpty()
isEmpty(st) == Cardinality(st) = 0

Min(a, b) == IF a <= b THEN a ELSE b

\* s.slice(0, n), n >= 0
Slice(s, n) == SubSeq(s, 1, Min(n, Len(s)))

\* every arrangement of the set S as a sequence
Perms(S) ==
    {f \in [1..Cardinality(S) -> S] : \A i, j \in 1..Cardinality(S) : i # j => f[i] # f[j]}

\* every sequence of n distinct elements of S
SeqsOfDistinct(S, n) == UNION {Perms(T) : T \in {U \in SUBSET S : Cardinality(U) = n}}

\* s has prefix at position i
MatchAt(s, i, prefix) ==
    /\ i + Len(prefix) - 1 <= Len(s)
    /\ \A j \in 1..Len(prefix) : s[i + j - 1] = prefix[j]

IsWordChar(c) == c \in LowerChars \cup UpperChars \cup DigitChars \cup {"_"}
IsNotQuote(c) == c # "'"

\* membership in a named character class: \w, [^'], SAFE_PATTERN's, [a-z]
InClass(c, class) ==
    CASE class = "word" -> IsWordChar(c)
      [] class = "notQuote" -> IsNotQuote(c)
      [] class = "safe" -> IsSafeChar(c)
      [] class = "lower" -> c \in LowerChars

\* the position of the quote that closes the value starting at position from,
\* 0 when the value is empty, unclosed or holds a character outside the class
ClosingQuote(s, from, class) ==
    LET ends == {e \in (from + 1)..Len(s) :
                    /\ s[e] = "'"
                    /\ \A j \in from..(e - 1) : s[j] # "'" /\ InClass(s[j], class)}
    IN  IF ends = {} THEN 0 ELSE CHOOSE e \in ends : TRUE

\* filter.match(/<prefix>(<class>+)'/): the positions where the regex matches
MatchStarts(s, prefix, class) ==
    {i \in 1..Len(s) : MatchAt(s, i, prefix) /\ ClosingQuote(s, i + Len(prefix), class) # 0}

\* the first match's capture group (call only when MatchStarts is not empty)
Capture(s, prefix, class) ==
    LET i == CHOOSE k \in MatchStarts(s, prefix, class) :
                 \A m \in MatchStarts(s, prefix, class) : k <= m
        from == i + Len(prefix)
    IN  SubSeq(s, from, ClosingQuote(s, from, class) - 1)

\* new RegExp('^' + pattern).test(s), the pattern being the LIKE value with
\* % replaced by .* and _ by . (every other character stands for itself)
RECURSIVE LikeMatchesPrefix(_, _)
LikeMatchesPrefix(pat, s) ==
    IF Len(pat) = 0 THEN TRUE
    ELSE IF pat[1] = "%"
         THEN \E k \in 0..Len(s) : LikeMatchesPrefix(Tail(pat), DropFirst(s, k))
         ELSE /\ Len(s) > 0
              /\ (pat[1] = "_" \/ pat[1] = s[1])
              /\ LikeMatchesPrefix(Tail(pat), Tail(s))

\* new RegExp(pattern).test(s): a match starting anywhere
LikeMatchesAnywhere(pat, s) ==
    \E k \in 0..Len(s) : LikeMatchesPrefix(pat, DropFirst(s, k))

\* MockVectorStore.matchesFilter
matchesFilter(record, filter) ==
    IF MatchStarts(filter, TxtLanguageEq, "word") # {}
    THEN record.language = Capture(filter, TxtLanguageEq, "word")
    ELSE IF MatchStarts(filter, TxtIdLike, "notQuote") # {}
    THEN LikeMatchesAnywhere(Capture(filter, TxtIdLike, "notQuote"), record.id)
    ELSE TRUE

\* a predicate argument: absent, or a string
NoFilter == [defined |-> FALSE, value |-> <<>>]
SomeFilter(s) == [defined |-> TRUE, value |-> s]

\* MockVectorStore.vectorSearch: the records in scope of the filter
VectorMatching(st, filter) ==
    {r \in st : ~filter.defined \/ matchesFilter(r, filter.value)}

-----------------------------------------------------------------------------
(* search/keyword-search.ts *)

\* applyFilter: one record against the parsed predicate
PassesLocalFilter(record, filter) ==
    /\ MatchStarts(filter, TxtLanguageEq, "notQuote") # {}
           => record.language = Capture(filter, TxtLanguageEq, "notQuote")
    /\ MatchStarts(filter, TxtIdLike, "notQuote") # {}
           => LikeMatchesPrefix(Capture(filter, TxtIdLike, "notQuote"), record.id)

\* applyFilter(results, filter)
applyFilter(results, filter) == SelectSeq(results, LAMBDA r : PassesLocalFilter(r, filter))

isEmbeddingError_NoModelLoad(name) ==
    name \in {"EmbeddingGenerationError", "EmbedderError"}

\* isEmbeddingError, on the error's name
isEmbeddingError(name) ==
    name \in {"EmbeddingGenerationError", "ModelLoadError", "EmbedderError"}

-----------------------------------------------------------------------------
(* chunker/languages.ts *)

LangTsx == <<"t", "s", "x">>
LangJsx == <<"j", "s", "x">>
LangJava == <<"j", "a", "v", "a">>
LangCsharp == <<"c", "s", "h", "a", "r", "p">>
LangCpp == <<"c", "p", "p">>
LangC == <<"c">>

\* LANGUAGE_CONFIGS: each language with its extensions, in the order of
\* Object.entries
LANGUAGE_CONFIGS ==
    << <<LangTypescript, <<<<".", "t", "s">>>> >>,
       <<LangTsx, <<<<".", "t", "s", "x">>>> >>,
       <<LangJavascript, << <<".", "j", "s">>, <<".", "m", "j", "s">>, <<".", "c", "j", "s">> >> >>,
       <<LangJsx, <<<<".", "j", "s", "x">>>> >>,
       <<LangPython, << <<".", "p", "y">>, <<".", "p", "y", "w">> >> >>,
       <<LangGo, <<<<".", "g", "o">>>> >>,
       <<LangRust, <<<<".", "r", "s">>>> >>,
       <<LangJava, <<<<".", "j", "a", "v", "a">>>> >>,
       <<LangCsharp, <<<<".", "c", "s">>>> >>,
       <<LangCpp, << <<".", "c", "p", "p">>, <<".", "c", "c">>, <<".", "c", "x", "x">>,
                     <<".", "h", "p", "p">>, <<".", "h">>, <<".", "h", "x", "x">> >> >>,
       <<LangC, <<<<".", "c">>>> >> >>

\* config.extensions.includes(ext)
ConfigHandles(config, ext) == \E i \in 1..Len(config[2]) : config[2][i] = ext

\* getLanguageByExtension: the first language whose extensions hold
\* ext.toLowerCase(), or null (<<>>)
getLanguageByExtension(ext) ==
    LET hits == {i \in 1..Len(LANGUAGE_CONFIGS) : ConfigHandles(LANGUAGE_CONFIGS[i], ToLower(ext))}
    IN  IF hits = {} THEN <<>>
        ELSE LANGUAGE_CONFIGS[CHOOSE i \in hits : \A j \in hits : i <= j][1]

\* getSupportedExtensions
getSupportedExtensions ==
    UNION {{LANGUAGE_CONFIGS[i][2][j] : j \in 1..Len(LANGUAGE_CONFIGS[i][2])}
           : i \in 1..Len(LANGUAGE_CONFIGS)}

-----------------------------------------------------------------------------
(* Inputs of the filter builder *)

\* the longest enumerated filter string
MaxPatLen == 3

FilterAlphabet == {"a", "Z", "7", "_", "-", "%", "/", ".", "*", "?", "'", " "}

\* sqlInjectionPayloads of tests/security/sql-injection.test.ts
SqlInjectionPayloads ==
  { <<"'", " ", "O", "R", " ", "'", "1", "'", "=", "'", "1">>,
    <<"'", ";", " ", "D", "R", "O", "P", " ", "T", "A", "B", "L", "E", " ", "u", "s", "e", "r", "s", "-", "-">>,
    <<"'", " ", "U", "N", "I", "O", "N", " ", "S", "E", "L", "E", "C", "T", " ", "*", " ", "F", "R", "O", "M", " ", "u", "s", "e", "r", "s", "-", "-">>,
    <<"1", "'", ";", " ", "D", "E", "L", "E", "T", "E", " ", "F", "R", "O", "M", " ", "c", "h", "u", "n", "k", "s", " ", "W", "H", "E", "R", "E", " ", "'", "1", "'", "=", "'", "1">>,
    <<"t", "e", "s", "t", "'", " ", "A", "N", "D", " ", "1", "=", "1", "-", "-">>,
    <<"a", "d", "m", "i", "n", "'", "-", "-">>,
    <<"'", " ", "O", "R", " ", "1", "=", "1", "#">>,
    <<"'", ";", " ", "W", "A", "I", "T", "F", "O", "R", " ", "D", "E", "L", "A", "Y", " ", "'", "0", ":", "0", ":", "5", "'", "-", "-">>,
    <<"'", " ", "O", "R", " ", "E", "X", "I", "S", "T", "S", "(", "S", "E", "L", "E", "C", "T", " ", "*", " ", "F", "R", "O", "M", " ", "u", "s", "e", "r", "s", ")", "-", "-">>,
    <<"t", "e", "s", "t", "NUL", "'", ";", " ", "D", "R", "O", "P", " ", "T", "A", "B", "L", "E", "-", "-">> }

\* filter strings the tests and the documentation use
SamplePaths ==
  { <<"s", "r", "c">>,
    <<"s", "r", "c", "/", "t", "e", "s", "t">>,
    <<"s", "r", "c", "\\", "t", "e", "s", "t">>,
    <<"s", "r", "c", "_", "a", "u", "t", "h">>,
    <<"s", "r", "c", "'", ";", " ", "D", "R", "O", "P", " ", "T", "A", "B", "L", "E", "-", "-", "/">> }

SamplePatterns ==
  { <<"*", ".", "t", "s">>,
    <<"*", ".", "T", "S">>,
    <<"*", ".", "p", "y">>,
    <<"*", ".", "x", "y", "z">>,
    <<"*", "*", "/", "*", ".", "t", "e", "s", "t", ".", "t", "s">>,
    <<"s", "r", "c", "/", "?", "?", ".", "t", "s">>,
    <<"*", ".", "t", "s", "'", ";", " ", "D", "R", "O", "P", " ", "T", "A", "B", "L", "E", "-", "-">> }

\* strings at and just past MAX_FILTER_VALUE_LENGTH: plain, glob and
\* extension-shaped
LongStrings ==
  { Rep("a", MAX_FILTER_VALUE_LENGTH),
    Rep("a", MAX_FILTER_VALUE_LENGTH + 1),
    <<"*", "*">> \o Rep("a", MAX_FILTER_VALUE_LENGTH - 1),
    <<"*", "*">> \o Rep("a", MAX_FILTER_VALUE_LENGTH),
    <<"*", ".">> \o Rep("a", MAX_FILTER_VALUE_LENGTH - 2),
    <<"*", ".">> \o Rep("a", MAX_FILTER_VALUE_LENGTH - 1) }

\* '*.ext' for every extension the chunker supports
SupportedExtensionPatterns == {<<"*">> \o ext : ext \in getSupportedExtensions}

FilterStrings ==
    StringsUpTo(FilterAlphabet, MaxPatLen) \cup SqlInjectionPayloads
        \cup SamplePaths \cup SamplePatterns \cup LongStrings
        \cup SupportedExtensionPatterns

\* one option alone with every string, both options with the samples
FilterInputs ==
    {<<p, <<>>>> : p \in FilterStrings} \cup {<<<<>>, p>> : p \in FilterStrings}
        \cup (SamplePaths \X SamplePatterns)

-----------------------------------------------------------------------------
(* search/index.ts and search/keyword-search.ts: the search calls *)

DEFAULT_LIMIT == 10
DEFAULT_CANDIDATE_MULTIPLIER == 5

\* the largest limit option a call is given
MaxLimit == 2

\* the writes the indexer makes while one search is in flight
MaxConcurrentWrites == 1

IdSrcA == <<"s", "r", "c", "_", "a", "_", "t", "s", "_", "L", "1">>
IdSrcB == <<"s", "r", "c", "_", "b", "_", "p", "y", "_", "L", "1">>
IdLibA == <<"l", "i", "b", "_", "a", "_", "t", "s", "_", "L", "1">>
PathSrcA == <<"s", "r", "c", "/", "a", ".", "t", "s">>
PathSrcB == <<"s", "r", "c", "/", "b", ".", "p", "y">>
PathLibA == <<"l", "i", "b", "/", "a", ".", "t", "s">>

\* the records a searched store may hold
SearchRecords ==
    { Rec(IdSrcA, PathSrcA, LangTypescript, 1),
      Rec(IdSrcB, PathSrcB, LangPython, 1),
      Rec(IdLibA, PathLibA, LangTypescript, 1) }

\* the path and filePattern options of a search: absent, valid, and invalid
SearchPaths ==
    { <<>>,
      <<"s", "r", "c">>,
      <<"a", "'", " ", "O", "R", " ", "'", "1", "'", "=", "'", "1">> }

SearchPatterns ==
    { <<>>,
      <<"*", ".", "t", "s">>,
      <<"l", "i", "b", "*">>,
      <<"*", ".", "t", "s", "'", ";", " ", "D", "R", "O", "P", " ", "T", "A", "B", "L", "E", "-", "-">> }

\* the limit option: omitted, or a number
LimitChoices ==
    {[given |-> FALSE, value |-> 0]} \cup {[given |-> TRUE, value |-> n] : n \in 1..MaxLimit}

SearchOptions ==
    [ path : SearchPaths,
      filePattern : SearchPatterns,
      limit : LimitChoices,
      useReranking : BOOLEAN,
      candidateMultiplier : {1, DEFAULT_CANDIDATE_MULTIPLIER},
      fallbackToKeywordSearch : BOOLEAN ]

\* the documented ceiling of the limit parameter ('default: 10, max: 50')
LIMIT_CEILING == 50

\* a large file: src/a.ts in more chunks than the ceiling allows results, one
\* chunk a line, in the order they were upserted
LargeFileRecords ==
    [i \in 1..(LIMIT_CEILING + 2) |->
        Rec(<<"s", "r", "c", "_", "a", "_", "t", "s", "_", "L">> \o Decimal(i),
            PathSrcA, LangTypescript, 1)]

LargeStore == {LargeFileRecords[i] : i \in 1..Len(LargeFileRecords)}

\* the options tried on the large store: a limit above the ceiling
LargeSearchOptions ==
    [ path : {<<>>},
      filePattern : {<<>>, <<"l", "i", "b", "*">>},
      limit : {[given |-> TRUE, value |-> LIMIT_CEILING + 1]},
      useReranking : BOOLEAN,
      candidateMultiplier : {1, DEFAULT_CANDIDATE_MULTIPLIER},
      fallbackToKeywordSearch : BOOLEAN ]

\* stores of up to MaxRanked records are searched under every order of the
\* scores; larger ones under one order, that of the Map (equal scores)
MaxRanked == 3

\* the options a call is tried with
CallOptions(st) == IF Cardinality(st) > MaxRanked THEN LargeSearchOptions ELSE SearchOptions

\* the records of S as the Map holds them
InMapOrder(S) ==
    LET all == LargeFileRecords \o <<Rec(IdSrcB, PathSrcB, LangPython, 1),
                                     Rec(IdLibA, PathLibA, LangTypescript, 1)>>
        Held(r) == r \in S
    IN  SelectSeq(all, Held)

\* the first n records of S in descending score order
ScoreOrders(S, n) ==
    IF Cardinality(S) <= MaxRanked THEN SeqsOfDistinct(S, n) ELSE {Slice(InMapOrder(S), n)}

\* what reordering by boosted score makes of found
BoostOrders(found) ==
    IF Len(found) <= MaxRanked THEN Perms({found[i] : i \in 1..Len(found)}) ELSE {found}

\* const { limit = DEFAULT_LIMIT } = options
LimitOf(opts) == IF opts.limit.given THEN opts.limit.value ELSE DEFAULT_LIMIT

\* the names of the errors embedQuery rejects with: the embedder's three kinds,
\* and any other Error
EmbedErrors == {"ModelLoadError", "EmbeddingGenerationError", "EmbedderError", "Error"}

CurrentEntries == {"hybridSearch", "vectorOnlySearch", "keywordOnlySearch"}
LegacyEntries == {"legacyHybridSearch", "legacyVectorOnlySearch"}

\* a search result and a call's outcome
Result(r, fb) == [record |-> r, fromFallback |-> fb]
SearchReturned(results) ==
    [kind |-> "return", results |-> results, error |-> "none", cause |-> "none"]
SearchThrown(e, cause) ==
    [kind |-> "throw", results |-> <<>>, error |-> e, cause |-> cause]
SearchPending == [kind |-> "none", results |-> <<>>, error |-> "none", cause |-> "none"]

LogEntry(op, k, filter) == [op |-> op, k |-> k, filter |-> filter]
NoCands == [vector |-> {}, boosted |-> <<>>, fts |-> <<>>]

SearchIdle ==
    /\ sFn = "none"
    /\ sOpts = CHOOSE o \in SearchOptions : TRUE
    /\ sPc = "idle"
    /\ sEmbed = "none"
    /\ sFilter = NoFilter
    /\ sCands = NoCands
    /\ sLog = <<>>
    /\ sOut = SearchPending
    /\ sMetrics = <<>>
    /\ sProgress = <<>>
    /\ sWrites = 0

SearchInit ==
    /\ LifeIdle
    /\ CacheIdle
    /\ BoostIdle
    /\ LoaderIdle
    /\ FilterIdle
    /\ store \in SUBSET SearchRecords
    /\ SearchIdle
    /\ PathsIdle
    /\ StoreIdle
    /\ IndexIdle

\* the call ends: its outcome, and the metrics sample it records (if any)
Finish(out, samples) ==
    /\ sPc' = "done"
    /\ sOut' = out
    /\ sMetrics' = sMetrics \o samples

Sample(count, usedFallback) == [resultCount |-> count, usedFallback |-> usedFallback]

\* the filter a builder's outcome hands to the store
AsFilter(built) == IF built.defined THEN SomeFilter(built.value) ELSE NoFilter

----
\* hybridSearch(query, store, options) is called: await store.isEmpty()
StartHybridSearch ==
    /\ sPc = "idle"
    /\ \E o \in CallOptions(store) : sOpts' = o
    /\ sFn' = "hybridSearch"
    /\ sPc' = "h_isEmpty"
    /\ UNCHANGED <<sEmbed, sFilter, sCands, sLog, sOut, sMetrics, sProgress, sWrites>>
    /\ UNCHANGED <<store, notSearchVars>>

\* vectorOnlySearch(query, store, options) is called: await embedQuery()
StartVectorOnlySearch ==
    /\ sPc = "idle"
    /\ \E o \in CallOptions(store) : sOpts' = o
    /\ sFn' = "vectorOnlySearch"
    /\ sPc' = "embed"
    /\ sProgress' = sProgress \o <<"Generating query embedding...">>
    /\ UNCHANGED <<sEmbed, sFilter, sCands, sLog, sOut, sMetrics, sWrites>>
    /\ UNCHANGED <<store, notSearchVars>>

\* keywordOnlySearch(query, store, options) is called: await store.isEmpty()
StartKeywordOnlySearch ==
    /\ sPc = "idle"
    /\ \E o \in CallOptions(store) : sOpts' = o
    /\ sFn' = "keywordOnlySearch"
    /\ sPc' = "k_isEmpty"
    /\ sProgress' = sProgress \o <<"Using keyword-only search (embedding unavailable)...">>
    /\ UNCHANGED <<sEmbed, sFilter, sCands, sLog, sOut, sMetrics, sWrites>>
    /\ UNCHANGED <<store, notSearchVars>>

\* the earlier module's hybridSearch is called: await store.isEmpty()
StartLegacyHybridSearch ==
    /\ sPc = "idle"
    /\ \E o \in CallOptions(store) : sOpts' = o
    /\ sFn' = "legacyHybridSearch"
    /\ sPc' = "h_isEmpty"
    /\ UNCHANGED <<sEmbed, sFilter, sCands, sLog, sOut, sMetrics, sProgress, sWrites>>
    /\ UNCHANGED <<store, notSearchVars>>

\* the earlier module's vectorOnlySearch is called: await embedQuery()
StartLegacyVectorOnlySearch ==
    /\ sPc = "idle"
    /\ \E o \in CallOptions(store) : sOpts' = o
    /\ sFn' = "legacyVectorOnlySearch"
    /\ sPc' = "embed"
    /\ sProgress' = sProgress \o <<"Generating query embedding...">>
    /\ UNCHANGED <<sEmbed, sFilter, sCands, sLog, sOut, sMetrics, sWrites>>
    /\ UNCHANGED <<store, notSearchVars>>

HybridStoreEmpty_GoesOn ==
    /\ sPc = "h_isEmpty"
    /\ isEmpty(store)
    /\ sLog' = Append(sLog, LogEntry("isEmpty", 0, NoFilter))
    /\ sProgress' = sProgress \o <<"Generating query embedding...">>
    /\ sPc' = "embed"
    /\ UNCHANGED <<sFn, sOpts, sEmbed, sFilter, sCands, sOut, sMetrics, sWrites>>
    /\ UNCHANGED <<store, notSearchVars>>

\* hybridSearch, store.isEmpty() answered true: return [] at once
HybridStoreEmpty ==
    /\ sPc = "h_isEmpty"
    /\ isEmpty(store)
    /\ sLog' = Append(sLog, LogEntry("isEmpty", 0, NoFilter))
    /\ sProgress' = sProgress \o <<"Index is empty. Run indexing first.">>
    /\ Finish(SearchReturned(<<>>), <<>>)
    /\ UNCHANGED <<sFn, sOpts, sEmbed, sFilter, sCands, sWrites>>
    /\ UNCHANGED <<store, notSearchVars>>

HybridStoreNotEmpty_ClearsStore ==
    /\ sPc = "h_isEmpty"
    /\ ~isEmpty(store)
    /\ sLog' = Append(sLog, LogEntry("isEmpty", 0, NoFilter))
    /\ sProgress' = sProgress \o <<"Generating query embedding...">>
    /\ sPc' = "embed"
    /\ store' = {}
    /\ UNCHANGED <<sFn, sOpts, sEmbed, sFilter, sCands, sOut, sMetrics, sWrites>>
    /\ UNCHANGED notSearchVars

\* hybridSearch, store.isEmpty() answered false: await embedQuery()
HybridStoreNotEmpty ==
    /\ sPc = "h_isEmpty"
    /\ ~isEmpty(store)
    /\ sLog' = Append(sLog, LogEntry("isEmpty", 0, NoFilter))
    /\ sProgress' = sProgress \o <<"Generating query embedding...">>
    /\ sPc' = "embed"
    /\ UNCHANGED <<sFn, sOpts, sEmbed, sFilter, sCands, sOut, sMetrics, sWrites>>
    /\ UNCHANGED <<store, notSearchVars>>

CandidateCount_AlwaysMultiplies == LimitOf(sOpts) * sOpts.candidateMultiplier

\* the number of candidates asked of vectorSearch
CandidateCount ==
    IF sFn \in {"hybridSearch", "legacyHybridSearch"}
    THEN IF sOpts.useReranking
         THEN LimitOf(sOpts) * sOpts.candidateMultiplier
         ELSE LimitOf(sOpts)
    ELSE LimitOf(sOpts)

\* the predicate the called module builds from the options
BuiltFilter ==
    IF sFn \in LegacyEntries
    THEN buildFilter(sOpts.path, sOpts.filePattern)
    ELSE buildSafeFilter(sOpts.path, sOpts.filePattern)

\* embedQuery resolved: build the predicate, then await store.vectorSearch()
EmbedQueryResolves ==
    /\ sPc = "embed"
    /\ sEmbed' = "ok"
    /\ sLog' = Append(sLog, LogEntry("embedQuery", 0, NoFilter))
    /\ IF BuiltFilter.kind = "throw"
       THEN /\ Finish(SearchThrown(BuiltFilter.error, "none"), <<>>)
            /\ UNCHANGED <<sFilter, sProgress>>
       ELSE /\ sFilter' = AsFilter(BuiltFilter)
            /\ sProgress' = sProgress \o <<"Searching...">>
            /\ sPc' = "vector"
            /\ UNCHANGED <<sOut, sMetrics>>
    /\ UNCHANGED <<sFn, sOpts, sCands, sWrites>>
    /\ UNCHANGED <<store, notSearchVars>>

ShouldFallBack_IgnoresOption(fallbackToKeywordSearch, name) == isEmbeddingError(name)

\* if (fallbackToKeywordSearch && isEmbeddingError(error))
ShouldFallBack(fallbackToKeywordSearch, name) ==
    fallbackToKeywordSearch /\ isEmbeddingError(name)

\* embedQuery rejected with error e
EmbedQueryRejects ==
    /\ sPc = "embed"
    /\ \E e \in EmbedErrors :
        /\ sEmbed' = e
        /\ IF sFn \in LegacyEntries
           THEN \* no catch: the embedder's error propagates
                /\ Finish(SearchThrown(e, "none"), <<>>)
                /\ UNCHANGED sProgress
           ELSE IF ShouldFallBack(sOpts.fallbackToKeywordSearch, e)
           THEN \* keywordOnlySearch(query, store, options): await store.isEmpty()
                /\ sPc' = "k_isEmpty"
                /\ sProgress' = sProgress \o
                     (IF sFn = "hybridSearch"
                      THEN <<"Embedding failed, falling back to keyword search...">>
                      ELSE <<>>)
                     \o <<"Using keyword-only search (embedding unavailable)...">>
                /\ UNCHANGED <<sOut, sMetrics>>
           ELSE /\ Finish(SearchThrown("EmbeddingGenerationError", e), <<>>)
                /\ UNCHANGED sProgress
    /\ sLog' = Append(sLog, LogEntry("embedQuery", 0, NoFilter))
    /\ UNCHANGED <<sFn, sOpts, sFilter, sCands, sWrites>>
    /\ UNCHANGED <<store, notSearchVars>>

\* the results of a finished vector path: hybridSearch keeps the first `limit`
HybridResults(final) == [i \in 1..Len(final) |-> Result(final[i], FALSE)]

\* store.vectorSearch answered with no result
VectorSearchFindsNothing ==
    /\ sPc = "vector"
    /\ Min(CandidateCount, Cardinality(VectorMatching(store, sFilter))) = 0
    /\ sLog' = Append(sLog, LogEntry("vectorSearch", CandidateCount, sFilter))
    /\ IF sFn = "hybridSearch"
       THEN /\ Finish(SearchReturned(<<>>), <<Sample(0, FALSE)>>)
            /\ sProgress' = sProgress \o <<"No matching results found">>
       ELSE IF sFn = "legacyHybridSearch"
       THEN /\ Finish(SearchReturned(<<>>), <<>>)
            /\ sProgress' = sProgress \o <<"No matching results found">>
       ELSE IF sFn = "vectorOnlySearch"
       THEN /\ Finish(SearchReturned(<<>>), <<Sample(0, FALSE)>>)
            /\ UNCHANGED sProgress
       ELSE /\ Finish(SearchReturned(<<>>), <<>>)
            /\ UNCHANGED sProgress
    /\ UNCHANGED <<sFn, sOpts, sEmbed, sFilter, sCands, sWrites>>
    /\ UNCHANGED <<store, notSearchVars>>

\* store.vectorSearch answered with the best candidates, in score order;
\* boostKeywordMatches reorders them; then rerank, or slice
VectorSearchFinds ==
    /\ sPc = "vector"
    /\ LET n == Min(CandidateCount, Cardinality(VectorMatching(store, sFilter)))
       IN  /\ n > 0
           /\ \E found \in ScoreOrders(VectorMatching(store, sFilter), n) :
              \E boosted \in BoostOrders(found) :
                IF sFn \in {"vectorOnlySearch", "legacyVectorOnlySearch"}
                THEN /\ boosted = found
                     /\ Finish(SearchReturned(HybridResults(found)),
                               IF sFn = "vectorOnlySearch"
                               THEN <<Sample(n, FALSE)>> ELSE <<>>)
                     /\ UNCHANGED <<sCands, sProgress>>
                ELSE IF sOpts.useReranking /\ n > LimitOf(sOpts)
                THEN \* await rerank(query, boostedResults, limit)
                     /\ sCands' = [sCands EXCEPT !.vector = {found[i] : i \in 1..n},
                                                !.boosted = boosted]
                     /\ sProgress' = sProgress \o
                            <<"Applying keyword matching...", "Reranking results...">>
                     /\ sPc' = "rerank"
                     /\ UNCHANGED <<sOut, sMetrics>>
                ELSE /\ sCands' = [sCands EXCEPT !.vector = {found[i] : i \in 1..n},
                                                !.boosted = boosted]
                     /\ sProgress' = sProgress \o <<"Applying keyword matching...">>
                     /\ Finish(SearchReturned(HybridResults(Slice(boosted, LimitOf(sOpts)))),
                               IF sFn = "hybridSearch"
                               THEN <<Sample(Min(LimitOf(sOpts), n), FALSE)>> ELSE <<>>)
    /\ sLog' = Append(sLog, LogEntry("vectorSearch", CandidateCount, sFilter))
    /\ UNCHANGED <<sFn, sOpts, sEmbed, sFilter, sWrites>>
    /\ UNCHANGED <<store, notSearchVars>>

\* rerank resolved: the top `limit` candidates by cross-encoder score
RerankResolves ==
    /\ sPc = "rerank"
    /\ \E final \in ScoreOrders({sCands.boosted[i] : i \in 1..Len(sCands.boosted)},
                                Min(LimitOf(sOpts), Len(sCands.boosted))) :
          Finish(SearchReturned(HybridResults(final)),
                 IF sFn = "hybridSearch" THEN <<Sample(Len(final), FALSE)>> ELSE <<>>)
    /\ sLog' = Append(sLog, LogEntry("rerank", LimitOf(sOpts), NoFilter))
    /\ UNCHANGED <<sFn, sOpts, sEmbed, sFilter, sCands, sProgress, sWrites>>
    /\ UNCHANGED <<store, notSearchVars>>

RerankRejects_Propagates ==
    /\ sPc = "rerank"
    /\ Finish(SearchThrown("Error", "none"), <<>>)
    /\ sLog' = Append(sLog, LogEntry("rerank", LimitOf(sOpts), NoFilter))
    /\ sProgress' = sProgress \o <<"Reranking failed">>
    /\ UNCHANGED <<sFn, sOpts, sEmbed, sFilter, sCands, sWrites>>
    /\ UNCHANGED <<store, notSearchVars>>

\* rerank rejected: the boosted order is kept
RerankRejects ==
    /\ sPc = "rerank"
    /\ LET final == Slice(sCands.boosted, LimitOf(sOpts))
       IN  Finish(SearchReturned(HybridResults(final)),
                  IF sFn = "hybridSearch" THEN <<Sample(Len(final), FALSE)>> ELSE <<>>)
    /\ sLog' = Append(sLog, LogEntry("rerank", LimitOf(sOpts), NoFilter))
    /\ sProgress' = sProgress \o <<"Reranking failed">>
    /\ UNCHANGED <<sFn, sOpts, sEmbed, sFilter, sCands, sWrites>>
    /\ UNCHANGED <<store, notSearchVars>>

\* keywordOnlySearch returns `results` to its caller: hybridSearch and
\* vectorOnlySearch record the sample and return them as fallback results
KeywordReturns(results) ==
    Finish(SearchReturned([i \in 1..Len(results) |-> Result(results[i], TRUE)]),
           IF sFn \in {"hybridSearch", "vectorOnlySearch"}
           THEN <<Sample(Len(results), TRUE)>> ELSE <<>>)

\* keywordOnlySearch, store.isEmpty() answered true
KeywordStoreEmpty ==
    /\ sPc = "k_isEmpty"
    /\ isEmpty(store)
    /\ sLog' = Append(sLog, LogEntry("isEmpty", 0, NoFilter))
    /\ sProgress' = sProgress \o <<"Index is empty. Run indexing first.">>
    /\ KeywordReturns(<<>>)
    /\ UNCHANGED <<sFn, sOpts, sEmbed, sFilter, sCands, sWrites>>
    /\ UNCHANGED <<store, notSearchVars>>

\* keywordOnlySearch, store.isEmpty() answered false: build the predicate,
\* then await store.fullTextSearch(query, limit * 2)
KeywordStoreNotEmpty ==
    /\ sPc = "k_isEmpty"
    /\ ~isEmpty(store)
    /\ sLog' = Append(sLog, LogEntry("isEmpty", 0, NoFilter))
    /\ LET built == buildSafeFilter(sOpts.path, sOpts.filePattern)
       IN  IF built.kind = "throw"
           THEN /\ Finish(SearchThrown(built.error, "none"), <<>>)
                /\ UNCHANGED <<sFilter, sProgress>>
           ELSE /\ sFilter' = AsFilter(built)
                /\ sProgress' = sProgress \o <<"Searching by keywords...">>
                /\ sPc' = "k_fts"
                /\ UNCHANGED <<sOut, sMetrics>>
    /\ UNCHANGED <<sFn, sOpts, sEmbed, sCands, sWrites>>
    /\ UNCHANGED <<store, notSearchVars>>

KeywordTrim_NoSlice(results, limit) == results

\* results.slice(0, limit)
KeywordTrim(results, limit) == Slice(results, limit)

\* store.fullTextSearch answered with at most limit * 2 records: filter
\* locally, trim to limit, flag fromFallback
FullTextSearchAnswers ==
    /\ sPc = "k_fts"
    /\ \E n \in 0..Min(LimitOf(sOpts) * 2, Cardinality(store)) :
       \E found \in ScoreOrders(store, n) :
          LET filtered == IF sFilter.defined THEN applyFilter(found, sFilter.value) ELSE found
          IN  /\ sCands' = [sCands EXCEPT !.fts = found]
              /\ KeywordReturns(KeywordTrim(filtered, LimitOf(sOpts)))
    /\ sLog' = Append(sLog, LogEntry("fullTextSearch", LimitOf(sOpts) * 2, NoFilter))
    /\ sProgress' = sProgress \o <<"Found results via keyword search">>
    /\ UNCHANGED <<sFn, sOpts, sEmbed, sFilter, sWrites>>
    /\ UNCHANGED <<store, notSearchVars>>

\* the indexer upserts a record while the search is suspended
ConcurrentUpsert ==
    /\ sPc \notin {"idle", "done"}
    /\ sWrites < MaxConcurrentWrites
    /\ \E r \in SearchRecords : store' = upsert(store, <<r>>)
    /\ sWrites' = sWrites + 1
    /\ UNCHANGED <<sFn, sOpts, sPc, sEmbed, sFilter, sCands, sLog, sOut, sMetrics, sProgress>>
    /\ UNCHANGED notSearchVars

\* the indexer deletes a file's records while the search is suspended
ConcurrentDelete ==
    /\ sPc \notin {"idle", "done"}
    /\ sWrites < MaxConcurrentWrites
    /\ \E r \in SearchRecords : store' = deleteByFilePath(store, r.filePath)
    /\ sWrites' = sWrites + 1
    /\ UNCHANGED <<sFn, sOpts, sPc, sEmbed, sFilter, sCands, sLog, sOut, sMetrics, sProgress>>
    /\ UNCHANGED notSearchVars

SearchNext ==
    \/ StartHybridSearch
    \/ StartVectorOnlySearch
    \/ StartKeywordOnlySearch
    \/ StartLegacyHybridSearch
    \/ StartLegacyVectorOnlySearch
    \/ HybridStoreEmpty
    \/ HybridStoreNotEmpty
    \/ EmbedQueryResolves
    \/ EmbedQueryRejects
    \/ VectorSearchFindsNothing
    \/ VectorSearchFinds
    \/ RerankResolves
    \/ RerankRejects
    \/ KeywordStoreEmpty
    \/ KeywordStoreNotEmpty
    \/ FullTextSearchAnswers
    \/ ConcurrentUpsert
    \/ ConcurrentDelete

SpecSearch == SearchInit /\ [][SearchNext]_vars

\* the same calls over the large store
LargeStoreInit ==
    /\ LifeIdle
    /\ CacheIdle
    /\ BoostIdle
    /\ LoaderIdle
    /\ FilterIdle
    /\ store = LargeStore
    /\ SearchIdle
    /\ PathsIdle
    /\ StoreIdle
    /\ IndexIdle

SpecLimit == LargeStoreInit /\ [][SearchNext]_vars

-----------------------------------------------------------------------------
(* The filter builder applied to its inputs *)

\* a boolean result, as an outcome
ReturnedBool(b) == [kind |-> "return", defined |-> TRUE,
                    value |-> IF b THEN <<"true">> ELSE <<"false">>, error |-> "none"]

FilterInit ==
    /\ LifeIdle
    /\ CacheIdle
    /\ BoostIdle
    /\ LoaderIdle
    /\ \E in \in FilterInputs : fPath = in[1] /\ fPattern = in[2]
    /\ fOp = "none"
    /\ fOut = NoOutcome
    /\ store = {}
    /\ SearchIdle
    /\ PathsIdle
    /\ StoreIdle
    /\ IndexIdle

\* validateFilterPattern(p), p being the path option's string
CallValidateFilterPattern ==
    /\ fOp = "none"
    /\ fPattern = <<>>
    /\ fOp' = "validateFilterPattern"
    /\ fOut' = ReturnedBool(validateFilterPattern(fPath))
    /\ UNCHANGED <<fPath, fPattern, notFilterVars>>

\* sanitizePathPattern(p)
CallSanitizePathPattern ==
    /\ fOp = "none"
    /\ fPattern = <<>>
    /\ fOp' = "sanitizePathPattern"
    /\ fOut' = sanitizePathPattern(fPath)
    /\ UNCHANGED <<fPath, fPattern, notFilterVars>>

\* sanitizeGlobPattern(p)
CallSanitizeGlobPattern ==
    /\ fOp = "none"
    /\ fPath = <<>>
    /\ fOp' = "sanitizeGlobPattern"
    /\ fOut' = sanitizeGlobPattern(fPattern)
    /\ UNCHANGED <<fPath, fPattern, notFilterVars>>

\* buildSafeFilter({path, filePattern})
CallBuildSafeFilter ==
    /\ fOp = "none"
    /\ fOp' = "buildSafeFilter"
    /\ fOut' = buildSafeFilter(fPath, fPattern)
    /\ UNCHANGED <<fPath, fPattern, notFilterVars>>

\* buildFilter({path, filePattern}) of the earlier search module
CallBuildFilter ==
    /\ fOp = "none"
    /\ fOp' = "buildFilter"
    /\ fOut' = buildFilter(fPath, fPattern)
    /\ UNCHANGED <<fPath, fPattern, notFilterVars>>

FilterNext ==
    \/ CallValidateFilterPattern
    \/ CallSanitizePathPattern
    \/ CallSanitizeGlobPattern
    \/ CallBuildSafeFilter
    \/ CallBuildFilter

SpecFilter == FilterInit /\ [][FilterNext]_vars

-----------------------------------------------------------------------------
(* utils/paths.ts *)

\* normalizePath: inputPath.replace(/\\/g, '/')
normalizePath(inputPath) ==
    [i \in 1..Len(inputPath) |-> IF inputPath[i] = "\\" THEN "/" ELSE inputPath[i]]

pathToChunkId_KeepsDots(filePath, startLine, suffix) ==
    LET normalized ==
            [i \in 1..Len(filePath) |->
                IF filePath[i] \in {"\\", "/"} THEN "_" ELSE filePath[i]]
    IN  normalized \o <<"_", "L">> \o Decimal(startLine) \o suffix

\* pathToChunkId: separators, then dots, become underscores
pathToChunkId(filePath, startLine, suffix) ==
    LET separatorsReplaced ==
            [i \in 1..Len(filePath) |->
                IF filePath[i] \in {"\\", "/"} THEN "_" ELSE filePath[i]]
        normalized ==
            [i \in 1..Len(separatorsReplaced) |->
                IF separatorsReplaced[i] = "." THEN "_" ELSE separatorsReplaced[i]]
    IN  normalized \o <<"_", "L">> \o Decimal(startLine) \o suffix

\* path.sep
Sep(platform) == IF platform = "win32" THEN "\\" ELSE "/"

\* what path.resolve takes for a separator
IsSep(c, platform) == c = "/" \/ (platform = "win32" /\ c = "\\")

\* process.cwd()
Cwd(platform) ==
    IF platform = "win32" THEN <<"C", ":", "\\", "w">> ELSE <<"/", "w">>

\* the segments of s between separators, from position i on
RECURSIVE SegmentsFrom(_, _, _)
SegmentsFrom(s, i, platform) ==
    IF i > Len(s) THEN <<>>
    ELSE IF IsSep(s[i], platform) THEN SegmentsFrom(s, i + 1, platform)
    ELSE LET e == CHOOSE e \in i..Len(s) :
                      /\ \A j \in i..e : ~IsSep(s[j], platform)
                      /\ e = Len(s) \/ IsSep(s[e + 1], platform)
         IN  <<SubSeq(s, i, e)>> \o SegmentsFrom(s, e + 1, platform)

\* '.' segments go, '..' segments take the segment before them (none at the top)
RECURSIVE Collapse(_, _)
Collapse(segs, acc) ==
    IF Len(segs) = 0 THEN acc
    ELSE LET h == Head(segs)
         IN  Collapse(Tail(segs),
                      IF h = <<".">> THEN acc
                      ELSE IF h = <<".", ".">>
                           THEN SubSeq(acc, 1, IF Len(acc) = 0 THEN 0 ELSE Len(acc) - 1)
                           ELSE Append(acc, h))

\* the drive of a win32 path ('C:'), <<>> without one and on posix
DeviceOf(s, platform) ==
    IF /\ platform = "win32"
       /\ Len(s) >= 2
       /\ s[2] = ":"
       /\ s[1] \in LowerChars \cup UpperChars
    THEN SubSeq(s, 1, 2)
    ELSE <<>>

\* a path taken apart: its drive, whether it starts at the top, its segments
Parse(s, platform) ==
    LET device == DeviceOf(s, platform)
        rest == DropFirst(s, Len(device))
    IN  [device |-> device,
         rooted |-> Len(rest) > 0 /\ IsSep(rest[1], platform),
         segs |-> SegmentsFrom(rest, 1, platform)]

\* one more argument of path.resolve, to the right of those in `base`
ResolveOnto(base, part) ==
    IF part.rooted
    THEN [device |-> IF Len(part.device) > 0 THEN part.device ELSE base.device,
          segs |-> part.segs]
    ELSE [device |-> base.device, segs |-> base.segs \o part.segs]

\* path.resolve(from, to), taken apart: the drive and the collapsed segments
ResolveParts(from, to, platform) ==
    LET cwd == Parse(Cwd(platform), platform)
        onto == ResolveOnto(ResolveOnto([device |-> cwd.device, segs |-> cwd.segs],
                                        Parse(from, platform)),
                            Parse(to, platform))
    IN  [device |-> onto.device, segs |-> Collapse(onto.segs, <<>>)]

RECURSIVE JoinSegs(_, _)
JoinSegs(segs, sep) ==
    IF Len(segs) = 0 THEN <<>>
    ELSE IF Len(segs) = 1 THEN segs[1]
    ELSE segs[1] \o <<sep>> \o JoinSegs(Tail(segs), sep)

\* path.resolve(from, to): the absolute path as a string
Resolve(from, to, platform) ==
    LET parts == ResolveParts(from, to, platform)
    IN  parts.device \o <<Sep(platform)>> \o JoinSegs(parts.segs, Sep(platform))

isWithinRoot_NoSeparator(testPath, rootDir, platform) ==
    LET resolvedPath == Resolve(rootDir, testPath, platform)
        resolvedRoot == Resolve(rootDir, <<>>, platform)
    IN  IF platform = "win32"
        THEN StartsWith(ToLower(resolvedPath), ToLower(resolvedRoot))
        ELSE StartsWith(resolvedPath, resolvedRoot)

\* isWithinRoot(testPath, rootDir)
isWithinRoot(testPath, rootDir, platform) ==
    LET resolvedPath == Resolve(rootDir, testPath, platform)
        resolvedRoot == Resolve(rootDir, <<>>, platform)
    IN  IF platform = "win32"
        THEN LET normalizedPath == ToLower(resolvedPath)
                 normalizedRoot == ToLower(resolvedRoot)
             IN  \/ StartsWith(normalizedPath, normalizedRoot \o ToLower(<<Sep(platform)>>))
                 \/ normalizedPath = normalizedRoot
        ELSE \/ StartsWith(resolvedPath, resolvedRoot \o <<Sep(platform)>>)
             \/ resolvedPath = resolvedRoot

-----------------------------------------------------------------------------
(* The path utilities applied to their inputs *)

MaxPathLen == 4
MaxIdCalls == 2

PathAlphabet == {"/", ".", "a", "b"}

\* the root directories of the isWithinRoot calls on posix: the top
\* directory, absolute ones, one with a trailing separator, a relative one
PosixRoots ==
    { <<"/">>, <<"/", "a">>, <<"/", "a", "/", "b">>, <<"/", "a", "/">>, <<"a">> }

Win32Roots ==
    { <<"C", ":", "\\">>, <<"C", ":", "\\", "a">>, <<"c", ":", "\\", "A">> }

Win32TestPaths ==
    { <<>>, <<"b">>, <<".", ".", "\\", "b">>, <<"a", "/", "b">>, <<"\\", "a">>,
      <<"C", ":", "\\", "a", "\\", "b">>, <<"C", ":", "\\", "a", "b">>,
      <<"c", ":", "\\", "A", "\\", "b">>, <<"D", ":", "\\", "a">>,
      <<"C", ":", "\\", "b">> }

WithinRootCall(testPath, rootDir, platform) ==
    [testPath |-> testPath, rootDir |-> rootDir, platform |-> platform]

WithinRootInputs ==
    {WithinRootCall(t, r, "posix") : t \in StringsUpTo(PathAlphabet, MaxPathLen), r \in PosixRoots}
    \cup {WithinRootCall(t, r, "win32") : t \in Win32TestPaths, r \in Win32Roots}

\* files whose names differ in a separator, a dot or an underscore only, the
\* same file written with the other separator, and an unrelated file
ChunkPaths ==
    { <<"a", "/", "b", ".", "c">>, <<"a", "\\", "b", ".", "c">>,
      <<"a", "/", "b", "_", "c">>, <<"a", ".", "b", "/", "c">>, <<"d", ".", "c">> }

ChunkLines == {1, 2, 12}

ChunkSuffixes == { <<>>, <<"_", "p", "0">> }

PathsInit ==
    /\ LifeIdle
    /\ CacheIdle
    /\ BoostIdle
    /\ LoaderIdle
    /\ FilterIdle
    /\ store = {}
    /\ SearchIdle
    /\ PathsIdle
    /\ StoreIdle
    /\ IndexIdle

CallPathToChunkId ==
    /\ wOut = "none"
    /\ Len(chunkIds) < MaxIdCalls
    /\ \E filePath \in ChunkPaths, startLine \in ChunkLines, suffix \in ChunkSuffixes :
          chunkIds' = Append(chunkIds,
                             [filePath |-> filePath, startLine |-> startLine,
                              suffix |-> suffix,
                              id |-> pathToChunkId(filePath, startLine, suffix)])
    /\ UNCHANGED <<wIn, wOut, notPathVars>>

CallIsWithinRoot ==
    /\ wOut = "none"
    /\ Len(chunkIds) = 0
    /\ \E in \in WithinRootInputs :
          /\ wIn' = in
          /\ wOut' = IF isWithinRoot(in.testPath, in.rootDir, in.platform)
                     THEN "true" ELSE "false"
    /\ UNCHANGED <<chunkIds, notPathVars>>

PathsNext ==
    \/ CallPathToChunkId
    \/ CallIsWithinRoot

SpecPaths == PathsInit /\ [][PathsNext]_vars

-----------------------------------------------------------------------------
(* Files, their chunks and their records *)

\* the files under the root: two whose names differ in '.' against '_' only,
\* and a third
FileAB == <<"a", ".", "b">>
FileA_B == <<"a", "_", "b">>
FileCD == <<"c", ".", "d">>
IndexPaths == {FileAB, FileA_B, FileCD}

\* the contents a file may have; hashContent is taken to be injective on
\* them, so that a content stands for its own hash
Contents == {1, 2, 3}

\* chunkCode: the start lines of the chunks of a content (content 3 is too
\* small to give a chunk)
ChunkStartLines(content) ==
    CASE content = 1 -> <<1>>
      [] content = 2 -> <<1, 2>>
      [] OTHER -> <<>>

\* chunks.map(chunk => createVectorRecord(chunk, embedding, contentHash)),
\* the chunk's id being pathToChunkId(filePath, startLine)
RecordsOf(filePath, content) ==
    [i \in 1..Len(ChunkStartLines(content)) |->
        Rec(pathToChunkId(filePath, ChunkStartLines(content)[i], <<>>),
            filePath, LangTypescript, content)]

\* the records of st that belong to filePath
RecordsAt(st, filePath) == {r \in st : r.filePath = filePath}

\* MockVectorStore.getIndexedFiles: the content hash of the first record of
\* each file path. The order of the Map is not kept by the set of records:
\* every record's hash stands as a candidate for its path's entry.
getIndexedFiles(st) == {<<r.filePath, r.contentHash>> : r \in st}

-----------------------------------------------------------------------------
(* The store's write calls, made directly *)

MaxStoreCalls == 4

StoreInit ==
    /\ LifeIdle
    /\ CacheIdle
    /\ BoostIdle
    /\ LoaderIdle
    /\ FilterIdle
    /\ store = {}
    /\ SearchIdle
    /\ PathsIdle
    /\ StoreIdle
    /\ IndexIdle

StoreCall(op, filePath, content, before, after) ==
    [op |-> op, filePath |-> filePath, content |-> content,
     before |-> before, after |-> after]

\* await store.upsert(records), the records being those of one file
CallUpsert ==
    /\ Len(stLog) < MaxStoreCalls
    /\ \E filePath \in IndexPaths, content \in Contents :
          /\ store' = upsert(store, RecordsOf(filePath, content))
          /\ stLog' = Append(stLog, StoreCall("upsert", filePath, content, store, store'))
    /\ UNCHANGED notStoreVars

\* await store.deleteByFilePath(filePath)
CallDeleteByFilePath ==
    /\ Len(stLog) < MaxStoreCalls
    /\ \E filePath \in IndexPaths :
          /\ store' = deleteByFilePath(store, filePath)
          /\ stLog' = Append(stLog, StoreCall("deleteByFilePath", filePath, 0, store, store'))
    /\ UNCHANGED notStoreVars

StoreNext ==
    \/ CallUpsert
    \/ CallDeleteByFilePath

SpecStore == StoreInit /\ [][StoreNext]_vars

-----------------------------------------------------------------------------
(* The index manager and the file watcher *)

MaxEvents == 3
MaxWorkers == 2

Event(kind, n) == [kind |-> kind, n |-> n]

Task(filePath, n, pc, content) ==
    [filePath |-> filePath, n |-> n, pc |-> pc, content |-> content]

Write(op, n) == [op |-> op, n |-> n]

\* a fresh index over a root that holds some files already
IndexInit ==
    /\ LifeIdle
    /\ CacheIdle
    /\ BoostIdle
    /\ LoaderIdle
    /\ FilterIdle
    /\ SearchIdle
    /\ PathsIdle
    /\ StoreIdle
    /\ store = {}
    /\ disk \in [IndexPaths -> {0, 1}]
    /\ queue = [p \in IndexPaths |-> <<>>]
    /\ task = {}
    /\ events = 0
    /\ ingested = [p \in IndexPaths |-> [hash |-> 0, times |-> 0]]
    /\ lastWrite = [p \in IndexPaths |-> Write("none", 0)]

\* an event for filePath leaves its debounce window and waits for a worker;
\* no event is accepted once shutdown began
Deliver(filePath, kind) ==
    /\ phase = "running"
    /\ events < MaxEvents
    /\ events' = events + 1
    /\ queue' = [queue EXCEPT ![filePath] = Append(@, Event(kind, events + 1))]

\* a file is created or overwritten: the watcher reports add or change
FileWritten ==
    \E filePath \in IndexPaths, content \in Contents :
        /\ disk[filePath] # content
        /\ disk' = [disk EXCEPT ![filePath] = content]
        /\ Deliver(filePath, "change")
        /\ UNCHANGED <<store, task, ingested, lastWrite, notIndexVars>>

\* a file is removed: the watcher reports unlink
FileRemoved ==
    \E filePath \in IndexPaths :
        /\ disk[filePath] # 0
        /\ disk' = [disk EXCEPT ![filePath] = 0]
        /\ Deliver(filePath, "unlink")
        /\ UNCHANGED <<store, task, ingested, lastWrite, notIndexVars>>

\* the scan walks over a file of the root
ScanFindsFile ==
    \E filePath \in IndexPaths :
        /\ disk[filePath] # 0
        /\ Deliver(filePath, "scan")
        /\ UNCHANGED <<store, disk, task, ingested, lastWrite, notIndexVars>>

CanStart_NoPathLock(filePath) ==
    /\ phase = "running"
    /\ Len(queue[filePath]) > 0
    /\ Cardinality(task) < MaxWorkers

\* a worker may take the next event of filePath: writes are serialized per
\* file path, at most MaxWorkers tasks run, and none starts once shutdown began
CanStart(filePath) ==
    /\ phase = "running"
    /\ Len(queue[filePath]) > 0
    /\ Cardinality(task) < MaxWorkers
    /\ \A t \in task : t.filePath # filePath

StartIngest_NoHashCheck ==
    \E filePath \in IndexPaths :
        /\ CanStart(filePath)
        /\ Head(queue[filePath]).kind \in {"change", "scan"}
        /\ disk[filePath] # 0
        /\ queue' = [queue EXCEPT ![filePath] = Tail(@)]
        /\ task' = task \cup {Task(filePath, Head(queue[filePath]).n, "purge", disk[filePath])}
        /\ UNCHANGED <<store, disk, events, ingested, lastWrite, notIndexVars>>

\* add, change or scan: the file is read and hashed, and ingested when
\* indexed_files does not hold that hash for it
StartIngest ==
    \E filePath \in IndexPaths :
        /\ CanStart(filePath)
        /\ Head(queue[filePath]).kind \in {"change", "scan"}
        /\ disk[filePath] # 0
        /\ <<filePath, disk[filePath]>> \notin getIndexedFiles(store)
        /\ queue' = [queue EXCEPT ![filePath] = Tail(@)]
        /\ task' = task \cup {Task(filePath, Head(queue[filePath]).n, "purge", disk[filePath])}
        /\ UNCHANGED <<store, disk, events, ingested, lastWrite, notIndexVars>>

\* add, change or scan: indexed_files[path] is the file's hash, skip
SkipUnchanged ==
    \E filePath \in IndexPaths :
        /\ CanStart(filePath)
        /\ Head(queue[filePath]).kind \in {"change", "scan"}
        /\ disk[filePath] # 0
        /\ <<filePath, disk[filePath]>> \in getIndexedFiles(store)
        /\ queue' = [queue EXCEPT ![filePath] = Tail(@)]
        /\ UNCHANGED <<store, disk, task, events, ingested, lastWrite, notIndexVars>>

\* add, change or scan of a file that is gone by now: the read fails, the
\* error is counted and nothing is written
ReadFails ==
    \E filePath \in IndexPaths :
        /\ CanStart(filePath)
        /\ Head(queue[filePath]).kind \in {"change", "scan"}
        /\ disk[filePath] = 0
        /\ queue' = [queue EXCEPT ![filePath] = Tail(@)]
        /\ UNCHANGED <<store, disk, task, events, ingested, lastWrite, notIndexVars>>

\* unlink
StartRemove ==
    \E filePath \in IndexPaths :
        /\ CanStart(filePath)
        /\ Head(queue[filePath]).kind = "unlink"
        /\ queue' = [queue EXCEPT ![filePath] = Tail(@)]
        /\ task' = task \cup {Task(filePath, Head(queue[filePath]).n, "remove", 0)}
        /\ UNCHANGED <<store, disk, events, ingested, lastWrite, notIndexVars>>

\* delete_by_file_path(path), to purge the stale records
Purge ==
    \E t \in task :
        /\ t.pc = "purge"
        /\ store' = deleteByFilePath(store, t.filePath)
        /\ lastWrite' = [lastWrite EXCEPT ![t.filePath] = Write("deleteByFilePath", t.n)]
        /\ task' = (task \ {t}) \cup {[t EXCEPT !.pc = "upsert"]}
        /\ UNCHANGED <<disk, queue, events, ingested, notIndexVars>>

\* chunk, embed and upsert the resulting records
Ingest ==
    \E t \in task :
        /\ t.pc = "upsert"
        /\ store' = upsert(store, RecordsOf(t.filePath, t.content))
        /\ lastWrite' = [lastWrite EXCEPT ![t.filePath] = Write("upsert", t.n)]
        /\ ingested' = [ingested EXCEPT ![t.filePath] = [hash |-> t.content, times |-> @.times + 1]]
        /\ task' = task \ {t}
        /\ UNCHANGED <<disk, queue, events, notIndexVars>>

\* delete_by_file_path(path) for a removed file
Remove ==
    \E t \in task :
        /\ t.pc = "remove"
        /\ store' = deleteByFilePath(store, t.filePath)
        /\ lastWrite' = [lastWrite EXCEPT ![t.filePath] = Write("deleteByFilePath", t.n)]
        /\ task' = task \ {t}
        /\ UNCHANGED <<disk, queue, events, ingested, notIndexVars>>

IndexNext ==
    \/ FileWritten
    \/ FileRemoved
    \/ ScanFindsFile
    \/ StartIngest
    \/ SkipUnchanged
    \/ ReadFails
    \/ StartRemove
    \/ Purge
    \/ Ingest
    \/ Remove

SpecIndex == IndexInit /\ [][IndexNext]_vars

\* the workers take up every waiting event and run every task to its end
IndexFairness ==
    /\ WF_vars(StartIngest)
    /\ WF_vars(SkipUnchanged)
    /\ WF_vars(ReadFails)
    /\ WF_vars(StartRemove)
    /\ WF_vars(Purge)
    /\ WF_vars(Ingest)
    /\ WF_vars(Remove)

SpecIndexFair == SpecIndex /\ IndexFairness

-----------------------------------------------------------------------------
(* Graceful shutdown of the index manager over the store *)

MaxLateOps == 1

\* what the shutdown steps leave alone, the store and the phase apart
notLifeVars == <<filterVars, searchVars, pathVars, stLog, cacheVars,
                 boostVars, loaderVars>>

\* MockVectorStore.close: this.records.clear(); this.initialized = false
close(st) == {}

LateOp(op, filePath, outcome, before, after) ==
    [op |-> op, filePath |-> filePath, outcome |-> outcome,
     before |-> before, after |-> after]

\* shutdown begins: watcher events are no longer accepted
BeginShutdown ==
    /\ phase = "running"
    /\ phase' = "stopping"
    /\ UNCHANGED <<store, indexVars, lateOps, notLifeVars>>

\* every per-file task in flight was awaited: await store.close()
CloseStore ==
    /\ phase = "stopping"
    /\ task = {}
    /\ store' = close(store)
    /\ phase' = "closed"
    /\ UNCHANGED <<indexVars, lateOps, notLifeVars>>

\* await store.upsert(records) on the closed store: MockVectorStore.upsert
\* looks at no flag, sets the records and resolves
UpsertAfterClose ==
    /\ phase = "closed"
    /\ Len(lateOps) < MaxLateOps
    /\ \E filePath \in IndexPaths, content \in Contents :
          /\ store' = upsert(store, RecordsOf(filePath, content))
          /\ lateOps' = Append(lateOps, LateOp("upsert", filePath, "resolved", store, store'))
    /\ UNCHANGED <<indexVars, phase, notLifeVars>>

\* await store.deleteByFilePath(filePath) on the closed store: resolves too
DeleteAfterClose ==
    /\ phase = "closed"
    /\ Len(lateOps) < MaxLateOps
    /\ \E filePath \in IndexPaths :
          /\ store' = deleteByFilePath(store, filePath)
          /\ lateOps' = Append(lateOps, LateOp("deleteByFilePath", filePath, "resolved", store, store'))
    /\ UNCHANGED <<indexVars, phase, notLifeVars>>

ShutdownNext ==
    \/ IndexNext
    \/ BeginShutdown
    \/ CloseStore
    \/ UpsertAfterClose
    \/ DeleteAfterClose

SpecShutdown == IndexInit /\ [][ShutdownNext]_vars

-----------------------------------------------------------------------------
(* utils/cache.ts (src/unnamed/part_002): LRUCache *)

MaxCacheSize == 2
MaxCacheCalls == 3
MaxClock == 2

CacheKeys == {"key1", "key2", "key3"}
CacheValues == {1, 2}

\* a CacheEntry under its key, and a call with what it returned (a set: with the
\* value it was given and the time it was made at)
Entry(key, value, timestamp) == [key |-> key, value |-> value, timestamp |-> timestamp]
CacheCall(op, key, hit) ==
    [op |-> op, key |-> key, hit |-> hit, value |-> 0, setAt |-> 0]
CacheSetCall(key, value) ==
    [op |-> "set", key |-> key, hit |-> TRUE, value |-> value, setAt |-> cNow]

\* this.cache.has(key), this.cache.get(key), this.cache.delete(key)
MapHas(map, key) == \E i \in 1..Len(map) : map[i].key = key
MapGet(map, key) == map[CHOOSE i \in 1..Len(map) : map[i].key = key]
MapDelete(map, key) ==
    LET Other(e) == e.key # key
    IN  SelectSeq(map, Other)

\* age > this.ttlMs, when a TTL is configured
Expired(entry) == cTtl.defined /\ cNow - entry.timestamp > cTtl.ms

\* new LRUCache({ maxSize, ttlMs })
CacheInit ==
    /\ LifeIdle
    /\ BoostIdle
    /\ LoaderIdle
    /\ FilterIdle
    /\ store = {}
    /\ SearchIdle
    /\ PathsIdle
    /\ StoreIdle
    /\ IndexIdle
    /\ cMax \in 0..MaxCacheSize
    /\ cTtl \in {NoTtl, Ttl(1)}
    /\ cNow = 0
    /\ cMap = <<>>
    /\ cLog = <<>>

CacheGet_RefreshesTimestamp ==
    /\ Len(cLog) < MaxCacheCalls
    /\ \E key \in CacheKeys :
          IF ~MapHas(cMap, key)
          THEN /\ cMap' = cMap
               /\ cLog' = Append(cLog, CacheCall("get", key, FALSE))
          ELSE IF Expired(MapGet(cMap, key))
          THEN /\ cMap' = MapDelete(cMap, key)
               /\ cLog' = Append(cLog, CacheCall("get", key, FALSE))
          ELSE /\ cMap' = Append(MapDelete(cMap, key),
                                 Entry(key, MapGet(cMap, key).value, cNow))
               /\ cLog' = Append(cLog, CacheCall("get", key, TRUE))
    /\ UNCHANGED <<cMax, cTtl, cNow, notCacheVars>>

\* get(key)
CacheGet ==
    /\ Len(cLog) < MaxCacheCalls
    /\ \E key \in CacheKeys :
          IF ~MapHas(cMap, key)
          THEN /\ cMap' = cMap
               /\ cLog' = Append(cLog, CacheCall("get", key, FALSE))
          ELSE IF Expired(MapGet(cMap, key))
          THEN /\ cMap' = MapDelete(cMap, key)
               /\ cLog' = Append(cLog, CacheCall("get", key, FALSE))
          ELSE \* move to the end by deleting and setting again
               /\ cMap' = Append(MapDelete(cMap, key), MapGet(cMap, key))
               /\ cLog' = Append(cLog, CacheCall("get", key, TRUE))
    /\ UNCHANGED <<cMax, cTtl, cNow, notCacheVars>>

AfterSet_EvictsFirst(map, key, value) ==
    LET room == IF Len(map) >= cMax /\ Len(map) > 0 THEN Tail(map) ELSE map
    IN  Append(MapDelete(room, key), Entry(key, value, cNow))

\* the Map after set(key, value): the key's entry is deleted, the oldest key
\* is deleted when the size is at maxSize, and the new entry is set
AfterSet(map, key, value) ==
    LET without == IF MapHas(map, key) THEN MapDelete(map, key) ELSE map
        room == IF Len(without) >= cMax /\ Len(without) > 0
                THEN Tail(without) ELSE without
    IN  Append(room, Entry(key, value, cNow))

\* set(key, value)
CacheSet ==
    /\ Len(cLog) < MaxCacheCalls
    /\ \E key \in CacheKeys, value \in CacheValues :
          /\ cMap' = AfterSet(cMap, key, value)
          /\ cLog' = Append(cLog, CacheSetCall(key, value))
    /\ UNCHANGED <<cMax, cTtl, cNow, notCacheVars>>

\* has(key): no move, but an expired entry is deleted
CacheHas ==
    /\ Len(cLog) < MaxCacheCalls
    /\ \E key \in CacheKeys :
          IF ~MapHas(cMap, key)
          THEN /\ cMap' = cMap
               /\ cLog' = Append(cLog, CacheCall("has", key, FALSE))
          ELSE IF Expired(MapGet(cMap, key))
          THEN /\ cMap' = MapDelete(cMap, key)
               /\ cLog' = Append(cLog, CacheCall("has", key, FALSE))
          ELSE /\ cMap' = cMap
               /\ cLog' = Append(cLog, CacheCall("has", key, TRUE))
    /\ UNCHANGED <<cMax, cTtl, cNow, notCacheVars>>

\* delete(key)
CacheDelete ==
    /\ Len(cLog) < MaxCacheCalls
    /\ \E key \in CacheKeys :
          /\ cMap' = MapDelete(cMap, key)
          /\ cLog' = Append(cLog, CacheCall("delete", key, MapHas(cMap, key)))
    /\ UNCHANGED <<cMax, cTtl, cNow, notCacheVars>>

\* clear()
CacheClear ==
    /\ Len(cLog) < MaxCacheCalls
    /\ cMap' = <<>>
    /\ cLog' = Append(cLog, CacheCall("clear", "", TRUE))
    /\ UNCHANGED <<cMax, cTtl, cNow, notCacheVars>>

\* a millisecond passes: Date.now() answers one more
Tick ==
    /\ cTtl.defined
    /\ cNow < MaxClock
    /\ cNow' = cNow + 1
    /\ UNCHANGED <<cMax, cTtl, cMap, cLog, notCacheVars>>

CacheNext ==
    \/ CacheGet
    \/ CacheSet
    \/ CacheHas
    \/ CacheDelete
    \/ CacheClear
    \/ Tick

SpecCache == CacheInit /\ [][CacheNext]_vars

-----------------------------------------------------------------------------
(* search/reranker.ts: boostKeywordMatches.  The file is not among the     *)
(* sources; the function is modelled from the specification's section 4.7. *)
(* Scores are counted in hundredths.                                       *)

\* the score 1.0, the upper end of the clamp
ScoreOne == 100

\* the weights of a match in name, signature and content
NAME_WEIGHT == 3
SIGNATURE_WEIGHT == 2
CONTENT_WEIGHT == 1

MaxBoostUnit == 2
MaxExactBonus == 1
MaxBoostCands == 2

\* s holds sub somewhere
Includes(s, sub) == \E i \in 1..(Len(s) + 1) : MatchAt(s, i, sub)

\* s holds sub as a whole word
IncludesWord(s, sub) ==
    \E i \in 1..(Len(s) + 1) :
        /\ MatchAt(s, i, sub)
        /\ i = 1 \/ ~IsWordChar(s[i - 1])
        /\ i + Len(sub) > Len(s) \/ ~IsWordChar(s[i + Len(sub)])

\* the words of s from position i on, cur being the word read so far
RECURSIVE WordsFrom(_, _, _)
WordsFrom(s, i, cur) ==
    IF i > Len(s) THEN (IF cur = <<>> THEN <<>> ELSE <<cur>>)
    ELSE IF IsWordChar(s[i]) THEN WordsFrom(s, i + 1, Append(cur, s[i]))
    ELSE (IF cur = <<>> THEN <<>> ELSE <<cur>>) \o WordsFrom(s, i + 1, <<>>)

\* the query's words, lowercased
Tokenize(query) == WordsFrom(ToLower(query), 1, <<>>)

\* how a candidate's name matches a token: 2 a whole word, 1 a substring, 0 not
NameMatch(record, token) ==
    IF IncludesWord(ToLower(record.name), token) THEN 2
    ELSE IF Includes(ToLower(record.name), token) THEN 1 ELSE 0

\* the weight one token adds to a candidate
TokenWeight_NoNameWeight(scale, record, token) ==
    (IF Includes(ToLower(record.signature), token) THEN SIGNATURE_WEIGHT ELSE 0)
    + (IF Includes(ToLower(record.content), token) THEN CONTENT_WEIGHT ELSE 0)

TokenWeight(scale, record, token) ==
    (CASE NameMatch(record, token) = 2 -> NAME_WEIGHT + scale.exactBonus
       [] NameMatch(record, token) = 1 -> NAME_WEIGHT
       [] OTHER -> 0)
    + (IF Includes(ToLower(record.signature), token) THEN SIGNATURE_WEIGHT ELSE 0)
    + (IF Includes(ToLower(record.content), token) THEN CONTENT_WEIGHT ELSE 0)

\* the weighted sum over the tokens
RECURSIVE WeightSum(_, _, _)
WeightSum(scale, record, tokens) ==
    IF tokens = <<>> THEN 0
    ELSE TokenWeight(scale, record, Head(tokens)) + WeightSum(scale, record, Tail(tokens))

\* the sum is scaled and added to the vector score; the result is clamped
BoostedScore(scale, query, cand) ==
    Min(ScoreOne, cand.score + scale.unit * WeightSum(scale, cand.record, Tokenize(query)))

\* the candidates with their boosted scores; the text fixes no order for them
boostKeywordMatches(scale, query, cands) ==
    Perms({[record |-> cands[i].record, score |-> BoostedScore(scale, query, cands[i])]
           : i \in 1..Len(cands)})

BoostQueries ==
    { <<>>,
      <<"g", "e", "t">>,
      <<"G", "e", "t", ".", "x">> }

\* name: string | null (<<>> stands for null)
BoostNames ==
    { <<>>,
      <<"g", "e", "t">>,
      <<"g", "e", "t", "X">> }

BoostSignatures == { <<>>, <<"g", "e", "t", "(", "x", ")">> }

BoostContents == { <<"s", "e", "t", " ", "x">> }

BoostScores == {50, ScoreOne - 2}

BoostRecord(id, name, signature, content) ==
    [id |-> id, name |-> name, signature |-> signature, content |-> content]

\* the candidate lists: records with ids 1, 2, ... and a vector score each
BoostInputs ==
    UNION {[1..n -> [name : BoostNames, signature : BoostSignatures,
                     content : BoostContents, score : BoostScores]]
           : n \in 1..MaxBoostCands}

BoostInit ==
    /\ LifeIdle
    /\ CacheIdle
    /\ LoaderIdle
    /\ FilterIdle
    /\ store = {}
    /\ SearchIdle
    /\ PathsIdle
    /\ StoreIdle
    /\ IndexIdle
    /\ bScale \in [unit : 1..MaxBoostUnit, exactBonus : 1..MaxExactBonus]
    /\ bQuery \in BoostQueries
    /\ \E in \in BoostInputs :
          bIn = [i \in 1..Len(in) |->
                    [record |-> BoostRecord(i, in[i].name, in[i].signature, in[i].content),
                     score |-> in[i].score]]
    /\ bOut = NotBoosted

notBoostVars == <<filterVars, store, searchVars, pathVars, stLog, indexVars, lifeVars,
                  cacheVars, loaderVars>>

CallBoostKeywordMatches ==
    /\ bOut = NotBoosted
    /\ \E results \in boostKeywordMatches(bScale, bQuery, bIn) : bOut' = Boosted(results)
    /\ UNCHANGED <<bScale, bQuery, bIn>>
    /\ UNCHANGED notBoostVars

BoostNext == CallBoostKeywordMatches

SpecBoost == BoostInit /\ [][BoostNext]_vars

-----------------------------------------------------------------------------
(* chunker/wasm-loader.ts: initParser and loadLanguage.  A call runs up to *)
(* its next await in one step; other calls run in between.                  *)

\* the loadLanguage calls in flight at once
MaxLoaders == 2

GrammarFiles == {"tree-sitter-typescript.wasm", "tree-sitter-python.wasm"}

Loaders == 1..MaxLoaders

\* a loadLanguage call: the file asked for, where it is suspended, whether
\* its initParser awaits Parser.init(), and what it returned or threw
\* (grammar 0: none; the grammar objects of a file are numbered as made)
LoaderCall(file, pc, initing, grammar, error) ==
    [file |-> file, pc |-> pc, initing |-> initing, grammar |-> grammar, error |-> error]

NotCalled == LoaderCall("none", "idle", FALSE, 0, "none")

notLoaderVars == <<filterVars, store, searchVars, pathVars, stLog, indexVars, lifeVars,
                   cacheVars, boostVars>>

LoaderInit ==
    /\ LifeIdle
    /\ CacheIdle
    /\ BoostIdle
    /\ FilterIdle
    /\ store = {}
    /\ SearchIdle
    /\ PathsIdle
    /\ StoreIdle
    /\ IndexIdle
    /\ initialized = FALSE
    /\ languageCache = [f \in GrammarFiles |-> 0]
    /\ lCalls = [c \in Loaders |-> NotCalled]
    /\ lLoads = [f \in GrammarFiles |-> [made |-> 0, failed |-> 0]]

\* loadLanguage(file), languageCache.has(file): return the cached grammar
LoadLanguageCached(c, file) ==
    /\ lCalls[c].pc = "idle"
    /\ languageCache[file] # 0
    /\ lCalls' = [lCalls EXCEPT ![c] = LoaderCall(file, "done", FALSE, languageCache[file], "none")]
    /\ UNCHANGED <<initialized, languageCache, lLoads>>
    /\ UNCHANGED notLoaderVars

\* loadLanguage(file), not cached: await initParser(), which awaits
\* Parser.init() unless the runtime is initialized
LoadLanguageNotCached(c, file) ==
    /\ lCalls[c].pc = "idle"
    /\ languageCache[file] = 0
    /\ lCalls' = [lCalls EXCEPT ![c] = LoaderCall(file, "init", ~initialized, 0, "none")]
    /\ UNCHANGED <<initialized, languageCache, lLoads>>
    /\ UNCHANGED notLoaderVars

\* initParser returned (after Parser.init() resolved, setting initialized):
\* await Parser.Language.load(wasmPath)
InitParserReturns(c) ==
    /\ lCalls[c].pc = "init"
    /\ initialized' = (initialized \/ lCalls[c].initing)
    /\ lCalls' = [lCalls EXCEPT ![c].pc = "load", ![c].initing = FALSE]
    /\ UNCHANGED <<languageCache, lLoads>>
    /\ UNCHANGED notLoaderVars

\* Parser.init() rejected: the error leaves loadLanguage
InitParserThrows(c) ==
    /\ lCalls[c].pc = "init"
    /\ lCalls[c].initing
    /\ lCalls' = [lCalls EXCEPT ![c].pc = "done", ![c].initing = FALSE,
                                ![c].error = "Error"]
    /\ UNCHANGED <<initialized, languageCache, lLoads>>
    /\ UNCHANGED notLoaderVars

\* Parser.Language.load resolved with a new grammar object:
\* languageCache.set(file, language), return language
LanguageLoadResolves(c) ==
    /\ lCalls[c].pc = "load"
    /\ LET file == lCalls[c].file
           language == lLoads[file].made + 1
       IN  /\ lLoads' = [lLoads EXCEPT ![file].made = language]
           /\ languageCache' = [languageCache EXCEPT ![file] = language]
           /\ lCalls' = [lCalls EXCEPT ![c].pc = "done", ![c].grammar = language]
    /\ UNCHANGED initialized
    /\ UNCHANGED notLoaderVars

\* Parser.Language.load rejected: throw new Error('Failed to load grammar ...')
LanguageLoadRejects(c) ==
    /\ lCalls[c].pc = "load"
    /\ lLoads' = [lLoads EXCEPT ![lCalls[c].file].failed = @ + 1]
    /\ lCalls' = [lCalls EXCEPT ![c].pc = "done", ![c].error = "Error"]
    /\ UNCHANGED <<initialized, languageCache>>
    /\ UNCHANGED notLoaderVars

LoaderNext ==
    \E c \in Loaders :
        \/ \E file \in GrammarFiles : LoadLanguageCached(c, file)
        \/ \E file \in GrammarFiles : LoadLanguageNotCached(c, file)
        \/ InitParserReturns(c)
        \/ InitParserThrows(c)
        \/ LanguageLoadResolves(c)
        \/ LanguageLoadRejects(c)

SpecLoader == LoaderInit /\ [][LoaderNext]_vars

-----------------------------------------------------------------------------
(* Properties *)

\* the end of the condition that s starts with, when it is one the builder
\* writes around whitelisted text: id LIKE '<[A-Za-z0-9_\-%]+>' or
\* language = '<[a-z]+>'; 0 otherwise
SafeConditionEnd(s) ==
    IF StartsWith(s, TxtIdLike) THEN ClosingQuote(s, Len(TxtIdLike) + 1, "safe")
    ELSE IF StartsWith(s, TxtLanguageEq)
         THEN ClosingQuote(s, Len(TxtLanguageEq) + 1, "lower")
         ELSE 0

\* s is such conditions joined by ' AND ', and nothing else
RECURSIVE IsSafePredicate(_)
IsSafePredicate(s) ==
    LET e == SafeConditionEnd(s)
    IN  /\ e # 0
        /\ \/ e = Len(s)
           \/ /\ MatchAt(s, e + 1, TxtAnd)
              /\ IsSafePredicate(DropFirst(s, e + Len(TxtAnd)))

\* C1: every predicate handed to the store (vectorSearch's filter argument) or
\* applied locally (keywordOnlySearch's applyFilter) on any search call path
\* is fixed builder text around values made of [A-Za-z0-9_\-%] only
C1_PredicatesWhitelisted ==
    /\ \A i \in 1..Len(sLog) :
          sLog[i].filter.defined => IsSafePredicate(sLog[i].filter.value)
    /\ sFilter.defined => IsSafePredicate(sFilter.value)

\* a translated filter value that the whitelist refuses: a character outside
\* [A-Za-z0-9_\-%], or more than 500 characters
TranslatedBad(t) ==
    \/ Len(t) > MAX_FILTER_VALUE_LENGTH
    \/ \E i \in 1..Len(t) : ~IsSafeChar(t[i])

ThrewInvalidFilter(out) == out.kind = "throw" /\ out.error = "InvalidFilterError"

\* C2: for every string p whose translated form holds a character outside the
\* whitelist or is longer than 500, validateFilterPattern(p) is false and
\* buildSafeFilter raises InvalidFilterError for {path: p} and for
\* {filePattern: p}
C2_InvalidPatternsRaise ==
    /\ (/\ fOp = "validateFilterPattern"
        /\ TranslatedBad(ReplaceSepAndDot(fPath)) \/ TranslatedBad(GlobToLike(fPath)))
           => fOut = ReturnedBool(FALSE)
    /\ (fOp = "buildSafeFilter" /\ fPattern = <<>> /\ TranslatedBad(ReplaceSepAndDot(fPath)))
           => ThrewInvalidFilter(fOut)
    /\ (fOp = "buildSafeFilter" /\ fPath = <<>> /\ TranslatedBad(GlobToLike(fPattern)))
           => ThrewInvalidFilter(fOut)

\* the path or the filePattern option fails the filter whitelist
OptionsFailWhitelist(opts) ==
    \/ Len(opts.path) > 0 /\ ~validateFilterPattern(ReplaceSepAndDot(opts.path))
    \/ Len(opts.filePattern) > 0 /\ ~validateFilterPattern(GlobToLike(opts.filePattern))

\* C3: a hybridSearch call whose path or filePattern fails the whitelist ends
\* with InvalidFilterError, whatever the store holds and whatever the
\* embedder does; never with a result list or another error
C3_InvalidFilterAlwaysFatal ==
    (sFn = "hybridSearch" /\ sPc = "done" /\ OptionsFailWhitelist(sOpts))
        => (sOut.kind = "throw" /\ sOut.error = "InvalidFilterError")

EmbedderFailures == {"ModelLoadError", "EmbeddingGenerationError", "EmbedderError"}

\* C8: with fallbackToKeywordSearch and valid filter options, a hybridSearch
\* call whose embedQuery failed with an embedder failure returns (does not
\* raise) at most `limit` results, all among fullTextSearch's answer and all
\* flagged fromFallback
C8_FallbackReturnsKeywordResults ==
    (/\ sFn = "hybridSearch"
     /\ sPc = "done"
     /\ sOpts.fallbackToKeywordSearch
     /\ ~OptionsFailWhitelist(sOpts)
     /\ sEmbed \in EmbedderFailures)
        => /\ sOut.kind = "return"
           /\ Len(sOut.results) <= LimitOf(sOpts)
           /\ \A i \in 1..Len(sOut.results) :
                 /\ sOut.results[i].fromFallback
                 /\ \E j \in 1..Len(sCands.fts) : sCands.fts[j] = sOut.results[i].record

C8_Witness ==
    /\ sFn = "hybridSearch"
    /\ sPc = "done"
    /\ sOpts.fallbackToKeywordSearch
    /\ sOpts.path # <<>>
    /\ ~OptionsFailWhitelist(sOpts)
    /\ sEmbed = "ModelLoadError"
    /\ Len(sCands.fts) > LimitOf(sOpts)
    /\ Len(sOut.results) = LimitOf(sOpts)
    /\ sOut.results[1].fromFallback

SameChunk(c, d) ==
    /\ normalizePath(c.filePath) = normalizePath(d.filePath)
    /\ c.startLine = d.startLine
    /\ c.suffix = d.suffix

\* C7: two pathToChunkId calls give the same id only when they name the same
\* chunk, so that no two distinct chunks of an indexing run share an id
C7_ChunkIdsUnique ==
    \A i, j \in 1..Len(chunkIds) :
        chunkIds[i].id = chunkIds[j].id => SameChunk(chunkIds[i], chunkIds[j])

\* one segment is the other; drives and names are case-insensitive on win32
SameName(a, b, platform) ==
    IF platform = "win32" THEN ToLower(a) = ToLower(b) ELSE a = b

\* resolve(rootDir, testPath) is the resolved root or below it: same drive,
\* and the root's segments are the first segments of the path
ResolvesWithin(testPath, rootDir, platform) ==
    LET p == ResolveParts(rootDir, testPath, platform)
        r == ResolveParts(rootDir, <<>>, platform)
    IN  /\ SameName(p.device, r.device, platform)
        /\ Len(r.segs) <= Len(p.segs)
        /\ \A i \in 1..Len(r.segs) : SameName(p.segs[i], r.segs[i], platform)

\* C10: for every root directory and test path, isWithinRoot is true exactly
\* when the resolved test path is the resolved root or a descendant of it
C10_WithinRootExact ==
    wOut # "none" =>
        (wOut = "true" <=> ResolvesWithin(wIn.testPath, wIn.rootDir, wIn.platform))


Range(seq) == {seq[i] : i \in 1..Len(seq)}

\* calls i, i+1 and i+2 are upsert(records_v1), deleteByFilePath(path) and
\* upsert(records_v2) for one path
IsReindexAt(i) ==
    /\ i + 2 <= Len(stLog)
    /\ stLog[i].op = "upsert"
    /\ stLog[i + 1].op = "deleteByFilePath"
    /\ stLog[i + 2].op = "upsert"
    /\ stLog[i + 1].filePath = stLog[i].filePath
    /\ stLog[i + 2].filePath = stLog[i].filePath

\* C4: after upsert(records_v1), deleteByFilePath(path), upsert(records_v2)
\* the store holds exactly the v2 records for the path, and the records of
\* every other path are what they were before the three calls
C4_ReindexReplacesExactly ==
    \A i \in 1..Len(stLog) :
        IsReindexAt(i) =>
            LET filePath == stLog[i].filePath
                before == stLog[i].before
                after == stLog[i + 2].after
            IN  /\ RecordsAt(after, filePath) = Range(RecordsOf(filePath, stLog[i + 2].content))
                /\ after \ RecordsAt(after, filePath) = before \ RecordsAt(before, filePath)


\* nothing is queued and no task runs
AllOperationsCompleted ==
    /\ task = {}
    /\ \A filePath \in IndexPaths : Len(queue[filePath]) = 0

\* a store write for filePath follows the path's last one in event order: a
\* purge or removal belongs to a later event, an upsert comes right after the
\* purge of its own event
WriteInOrder(filePath) ==
    IF lastWrite'[filePath].op = "upsert"
    THEN lastWrite[filePath] = Write("deleteByFilePath", lastWrite'[filePath].n)
    ELSE /\ lastWrite[filePath].op # "deleteByFilePath" \/ lastWrite[filePath].n < lastWrite'[filePath].n
         /\ lastWrite[filePath].n <= lastWrite'[filePath].n

\* every store write follows the last write of its path in event order
WritesInEventOrder ==
    \A filePath \in IndexPaths :
        lastWrite'[filePath] # lastWrite[filePath] => WriteInOrder(filePath)

\* at most one task runs for a path, and a purge is followed by the upsert of
\* the same task before any later event of the path is taken up
OneTaskPerPath ==
    \A filePath \in IndexPaths :
        /\ Cardinality({t \in task : t.filePath = filePath}) <= 1
        /\ \A t \in task : t.filePath = filePath => t.n >= lastWrite[filePath].n
        /\ \A t \in task :
              (t.filePath = filePath /\ t.pc = "upsert")
                  => lastWrite[filePath] = Write("deleteByFilePath", t.n)

\* once all operations have completed, every record of a path carries the
\* hash of the content the path's last event left
NoStaleRecords ==
    AllOperationsCompleted => \A r \in store : r.contentHash = disk[r.filePath]

\* C5: the store writes of one file path are made event after event and never
\* interleave (those of different paths do), and once all operations have
\* completed the store holds no record of a path from an older hash than the
\* one of the path's last event
C5_WritesSerializedPerPath ==
    /\ [](OneTaskPerPath /\ NoStaleRecords)
    /\ [][WritesInEventOrder]_vars

\* a path was ingested, written again and ingested again after another path
\* was, and all has completed
C5_Witness ==
    /\ AllOperationsCompleted
    /\ lastWrite[FileAB].op = "upsert"
    /\ lastWrite[FileA_B].op = "upsert"
    /\ lastWrite[FileA_B].n < lastWrite[FileAB].n
    /\ ingested[FileAB] = [hash |-> 1, times |-> 2]
    /\ ingested[FileA_B].times = 1
    /\ disk[FileAB] = 1
    /\ RecordsAt(store, FileAB) = Range(RecordsOf(FileAB, 1))

NoEventAfterShutdown == phase # "running" => events' = events

InFlightTasksDrained == phase = "closed" => task = {}

CallsAfterCloseFail ==
    \A i \in 1..Len(lateOps) :
        /\ lateOps[i].outcome = "StoreClosedError"
        /\ lateOps[i].after = lateOps[i].before

C11_ShutdownOrdered ==
    /\ [][NoEventAfterShutdown]_vars
    /\ [](InFlightTasksDrained /\ CallsAfterCloseFail)

\* the two parts that rest on the index manager alone
ManagerDrains ==
    /\ [][NoEventAfterShutdown]_vars
    /\ []InFlightTasksDrained

\* the store holds for filePath exactly the records of the file's content on
\* disk (none when the file is gone), and indexed_files maps the path to that
\* content's hash and to nothing else (to nothing when the file is gone)
Settled(filePath) ==
    /\ RecordsAt(store, filePath) = Range(RecordsOf(filePath, disk[filePath]))
    /\ {entry[2] : entry \in {e \in getIndexedFiles(store) : e[1] = filePath}}
           = (IF disk[filePath] = 0 THEN {} ELSE {disk[filePath]})

\* C12: for every file path that gets an event, once its last event was
\* delivered the store eventually holds, and keeps, exactly the records of the
\* file's final content with indexed_files[path] the hash of that content; no
\* record and no entry when the last event was a delete.
C12_EventuallyFinalContent ==
    \A filePath \in IndexPaths :
        <>(Len(queue[filePath]) > 0) => <>[]Settled(filePath)

\* the step takes up an add, change or scan event of filePath while the hash
\* of the file's content is indexed_files[filePath]
TakesUpUnchanged(filePath) ==
    /\ Len(queue[filePath]) > 0
    /\ queue'[filePath] = Tail(queue[filePath])
    /\ Head(queue[filePath]).kind \in {"change", "scan"}
    /\ disk[filePath] # 0
    /\ <<filePath, disk[filePath]>> \in getIndexedFiles(store)

\* C13: when the hash of the file's content equals indexed_files[path], the
\* scan or change event is skipped: no task is started for the path, so that
\* no delete_by_file_path, no embedding and no upsert is issued for it, and
\* the store with its indexed_files is left as it was.
C13_UnchangedFileSkipped ==
    [][\A filePath \in IndexPaths :
          TakesUpUnchanged(filePath) =>
              /\ store' = store
              /\ getIndexedFiles(store') = getIndexedFiles(store)
              /\ task' = task
              /\ lastWrite' = lastWrite
              /\ ingested' = ingested]_vars

\* a file was written and ingested, and a second event of it was taken up and
\* left no write
C13_Witness ==
    /\ AllOperationsCompleted
    /\ events = 2
    /\ disk[FileCD] = 1
    /\ ingested[FileCD] = [hash |-> 1, times |-> 1]
    /\ lastWrite[FileCD] = Write("upsert", 1)
    /\ lastWrite[FileAB].op = "none"
    /\ lastWrite[FileA_B].op = "none"
    /\ RecordsAt(store, FileCD) = Range(RecordsOf(FileCD, 1))

\* filePath with '/' and '\\' exchanged
ExchangeSeparators(filePath) ==
    [i \in 1..Len(filePath) |->
        CASE filePath[i] = "/" -> "\\"
          [] filePath[i] = "\\" -> "/"
          [] OTHER -> filePath[i]]

\* the id the chunk is to get: each '/', '\\' and '.' of the path as '_', then
\* '_L', the line in decimal and the suffix
ExpectedChunkId(c) ==
    [i \in 1..Len(c.filePath) |->
        IF c.filePath[i] \in {"/", "\\", "."} THEN "_" ELSE c.filePath[i]]
    \o <<"_", "L">> \o Decimal(c.startLine) \o c.suffix

IdsOf(records) == {r.id : r \in records}

\* C17: upsert is idempotent by id. Applying upsert(records) to the store it
\* left gives that store again, the records upserted are in the store, and
\* when every id of the records was stored already the records replace the
\* stored ones and count() is what it was.
C17_UpsertIdempotent ==
    \A i \in 1..Len(stLog) :
        stLog[i].op = "upsert" =>
            LET records == RecordsOf(stLog[i].filePath, stLog[i].content)
                before == stLog[i].before
                after == stLog[i].after
            IN  /\ upsert(after, records) = after
                /\ Range(records) \subseteq after
                /\ Cardinality(IdsOf(after)) = Cardinality(after)
                /\ IdsOf(Range(records)) \subseteq IdsOf(before)
                       => Cardinality(after) = Cardinality(before)

\* the same records were upserted twice, and then records of another file
\* under the ids already stored: the store kept its two records, replaced
C17_Witness ==
    /\ Len(stLog) = 3
    /\ stLog[1] = StoreCall("upsert", FileAB, 2, {}, Range(RecordsOf(FileAB, 2)))
    /\ stLog[2].op = "upsert"
    /\ stLog[2].filePath = FileAB
    /\ stLog[2].content = 2
    /\ stLog[2].after = stLog[2].before
    /\ stLog[3].op = "upsert"
    /\ stLog[3].filePath = FileA_B
    /\ stLog[3].content = 2
    /\ stLog[3].after # stLog[3].before
    /\ Cardinality(stLog[3].after) = 2

\* the calls a search makes on the embedder and the reranker, and the store
\* methods that only read
ModelCalls == {"embedQuery", "rerank"}
StoreReads == {"isEmpty", "vectorSearch", "fullTextSearch"}

\* C18: no step of hybridSearch, vectorOnlySearch or keywordOnlySearch changes
\* the records of the store, whether the call returns results, falls back to
\* keyword search or throws: the store changes only by a write of the indexer,
\* and the store methods a search calls are isEmpty, vectorSearch and
\* fullTextSearch.
C18_SearchLeavesStoreAlone ==
    /\ [][sWrites' = sWrites => store' = store]_vars
    /\ [](\A i \in 1..Len(sLog) : sLog[i].op \notin ModelCalls => sLog[i].op \in StoreReads)

\* a vector-only search fell back to keyword search and returned records of a
\* store no indexer wrote to in the meantime
C18_Witness ==
    /\ sFn = "vectorOnlySearch"
    /\ sPc = "done"
    /\ sWrites = 0
    /\ sEmbed = "EmbeddingGenerationError"
    /\ Len(sOut.results) > 0
    /\ \E i \in 1..Len(sLog) : sLog[i].op = "fullTextSearch"
    /\ Cardinality(store) = 3

\* the hybridSearch call was served by keyword fallback
ServedByFallback ==
    \E i \in 1..Len(sLog) : sLog[i].op = "embedQuery" /\ sEmbed \notin {"none", "ok"}
                             /\ sOut.kind = "return"

\* C19: every call of hybridSearch records exactly one search-metric sample,
\* also when it returns early on an empty store, finds no candidate or is
\* served by keyword fallback, and the sample's fallback flag is true exactly
\* for the calls served by keyword fallback.
C19_OneSamplePerCall ==
    (sFn = "hybridSearch" /\ sPc = "done") =>
        /\ Len(sMetrics) = 1
        /\ sMetrics[1].usedFallback <=> ServedByFallback

\* the same for the calls that went past the empty-store check and returned
OneSamplePerReturnFromNonEmptyStore ==
    (sFn = "hybridSearch" /\ sPc = "done" /\ sOut.kind = "return" /\ Len(sLog) > 1) =>
        /\ Len(sMetrics) = 1
        /\ sMetrics[1].usedFallback <=> ServedByFallback

\* C20: whatever the limit option, hybridSearch returns at most
\* min(limit, 50) results, limit being 10 when omitted, on the plain vector
\* path, the reranked path and the keyword-fallback path.
C20_ResultsWithinCeiling ==
    (sFn = "hybridSearch" /\ sPc = "done" /\ sOut.kind = "return") =>
        Len(sOut.results) <= Min(LimitOf(sOpts), LIMIT_CEILING)

\* the part that holds: no search returns more results than its limit
ResultsWithinLimit ==
    (sFn \in CurrentEntries /\ sPc = "done" /\ sOut.kind = "return") =>
        Len(sOut.results) <= LimitOf(sOpts)

\* get size(): this.cache.size
CacheSize == Len(cMap)

\* C15: whatever maxSize N >= 0 the cache was made with, and whatever set,
\* get, has, delete and clear calls were made, it never holds more than N
\* entries.
C15_SizeWithinMaxSize == CacheSize <= cMax

\* the same for the caches made with a maxSize of 1 or more
SizeWithinPositiveMaxSize == cMax >= 1 => CacheSize <= cMax

\* the keys the cache holds
KeysHeld == {cMap[i].key : i \in 1..Len(cMap)}

\* the calls so far are sets of pairwise distinct keys and gets that found
\* their key, on a cache without TTL, and the last one is set number maxSize + 1
IsEvictingRun ==
    /\ ~cTtl.defined
    /\ Len(cLog) > 0
    /\ \A i \in 1..Len(cLog) : cLog[i].op = "set" \/ (cLog[i].op = "get" /\ cLog[i].hit)
    /\ cLog[Len(cLog)].op = "set"
    /\ Cardinality({i \in 1..Len(cLog) : cLog[i].op = "set"}) = cMax + 1
    /\ \A i, j \in 1..Len(cLog) :
          (cLog[i].op = "set" /\ cLog[j].op = "set" /\ i # j) => cLog[i].key # cLog[j].key

\* the keys set before the last call, and the last call that used one of them
KeysSetBefore == {cLog[i].key : i \in {j \in 1..(Len(cLog) - 1) : cLog[j].op = "set"}}
LastUse(key) ==
    CHOOSE i \in 1..(Len(cLog) - 1) :
        /\ cLog[i].key = key
        /\ \A j \in 1..(Len(cLog) - 1) : cLog[j].key = key => j <= i

\* the least recently used key of a set of keys set before
LeastRecentlyUsed(keys) == CHOOSE k \in keys : \A other \in keys : LastUse(k) <= LastUse(other)

\* C14: on a cache of capacity N without TTL, after N+1 sets of pairwise
\* distinct keys with no get in between, the first-inserted key is absent and
\* the other N are present; and a key read with get after its insertion and
\* before set number N+1 survives that set, the least recently used of the
\* other keys being the one evicted.
C14_LruEviction ==
    IsEvictingRun =>
        /\ (\A i \in 1..Len(cLog) : cLog[i].op = "set") =>
               /\ cLog[1].key \notin KeysHeld
               /\ \A i \in 2..Len(cLog) : cLog[i].key \in KeysHeld
        /\ \A i \in 1..Len(cLog) :
               cLog[i].op = "get" =>
                   /\ cLog[i].key \in KeysHeld
                   /\ KeysSetBefore \ {cLog[i].key} # {}
                          => LeastRecentlyUsed(KeysSetBefore \ {cLog[i].key}) \notin KeysHeld

\* what holds of a capacity of 1 or more: set number N+1 evicts the least
\* recently used key, a get counting as a use, and no other
EvictsLeastRecentlyUsed ==
    (IsEvictingRun /\ cMax >= 1) =>
        KeysHeld = (KeysSetBefore \cup {cLog[Len(cLog)].key}) \ {LeastRecentlyUsed(KeysSetBefore)}

\* the vector score the candidate of a boosted result came with
VectorScoreOf(result) == bIn[result.record.id].score

\* r1 and r2 are the same candidate but for the name
SameButName(r1, r2) ==
    /\ VectorScoreOf(r1) = VectorScoreOf(r2)
    /\ r1.record.signature = r2.record.signature
    /\ r1.record.content = r2.record.content

\* r1's name matches every token as well as r2's does, and one token more
\* than r2's does: 1 a match where r2's has none, 2 a whole word where r2's
\* has a substring only
NameMatchesMore(r1, r2, least) ==
    LET tokens == Tokenize(bQuery)
    IN  /\ \A i \in 1..Len(tokens) :
              NameMatch(r1.record, tokens[i]) >= NameMatch(r2.record, tokens[i])
        /\ \E i \in 1..Len(tokens) :
              /\ NameMatch(r1.record, tokens[i]) >= least
              /\ NameMatch(r2.record, tokens[i]) = least - 1

\* C21: every boosted score is in [0,1]; a candidate whose name matches a query
\* token scores strictly higher than the same candidate without that match,
\* and a whole-word match in the name strictly higher than a substring match
C21_BoostStrictlyMonotone ==
    bOut.done =>
        /\ \A i \in 1..Len(bOut.results) : bOut.results[i].score \in 0..ScoreOne
        /\ \A i, j \in 1..Len(bOut.results) :
              /\ SameButName(bOut.results[i], bOut.results[j])
              /\ \E least \in {1, 2} : NameMatchesMore(bOut.results[i], bOut.results[j], least)
              => bOut.results[i].score > bOut.results[j].score

\* C21 as amended: every boosted score is in [0,1]; the name match, and the
\* whole word over the substring, scores strictly higher wherever the other
\* candidate's score is below 1, and both score 1 otherwise
C21_BoostMonotoneBelowClamp ==
    bOut.done =>
        /\ \A i \in 1..Len(bOut.results) : bOut.results[i].score \in 0..ScoreOne
        /\ \A i, j \in 1..Len(bOut.results) :
              /\ SameButName(bOut.results[i], bOut.results[j])
              /\ \E least \in {1, 2} : NameMatchesMore(bOut.results[i], bOut.results[j], least)
              => IF bOut.results[j].score < ScoreOne
                 THEN bOut.results[i].score > bOut.results[j].score
                 ELSE bOut.results[i].score = ScoreOne

\* two candidates alike but for the name, one matching a token as a whole
\* word and the other as a substring, were boosted below the clamp
C21_Witness ==
    /\ bOut.done
    /\ \E i, j \in 1..Len(bOut.results) :
          /\ SameButName(bOut.results[i], bOut.results[j])
          /\ NameMatchesMore(bOut.results[i], bOut.results[j], 2)
          /\ bOut.results[j].score < ScoreOne
          /\ bOut.results[j].score > VectorScoreOf(bOut.results[j])

\* filePattern is '*.ext' with an extension EXTENSION_TO_LANGUAGE does not hold
IsUnknownExtensionPattern(filePattern) ==
    /\ IsExtensionPattern(filePattern)
    /\ ~KnownExtension(ToLower(DropFirst(filePattern, 1)))

\* C22: for a filePattern '*.ext' whose extension is not in the
\* extension-to-language table, buildSafeFilter gives what the generic id-LIKE
\* condition of that pattern gives (joined to the path's condition), and
\* never returns an absent predicate
C22_UnknownExtensionGetsIdLike ==
    (fOp = "buildSafeFilter" /\ IsUnknownExtensionPattern(fPattern))
        => /\ fOut = FinishFilter(SafePathConditions(fPath)
                                    \o <<buildFilePatternCondition(fPattern)>>)
           /\ fOut # ReturnedUndefined

\* with an extension the table holds, the language condition alone stands for
\* the pattern
KnownExtensionGetsLanguage ==
    (fOp = "buildSafeFilter" /\ IsExtensionPattern(fPattern)
        /\ ~IsUnknownExtensionPattern(fPattern))
        => fOut = FinishFilter(SafePathConditions(fPath)
                      \o <<buildLanguageCondition(LanguageOf(ToLower(DropFirst(fPattern, 1))))>>)

\* SQL LIKE: pat matches the whole of s, % any string and _ any one character
RECURSIVE LikeMatchesWhole(_, _)
LikeMatchesWhole(pat, s) ==
    IF Len(pat) = 0 THEN Len(s) = 0
    ELSE IF pat[1] = "%"
         THEN \E k \in 0..Len(s) : LikeMatchesWhole(Tail(pat), DropFirst(s, k))
         ELSE /\ Len(s) > 0
              /\ (pat[1] = "_" \/ pat[1] = s[1])
              /\ LikeMatchesWhole(Tail(pat), Tail(s))

\* the quoted value of the condition that starts at position i of the predicate
ValueAt(filter, i, prefix) ==
    SubSeq(filter, i + Len(prefix), ClosingQuote(filter, i + Len(prefix), "notQuote") - 1)

\* the predicate holds for the record in the store: every AND-joined
\* condition does
HoldsInStore(record, filter) ==
    /\ \A i \in MatchStarts(filter, TxtLanguageEq, "notQuote") :
          record.language = ValueAt(filter, i, TxtLanguageEq)
    /\ \A i \in MatchStarts(filter, TxtIdLike, "notQuote") :
          LikeMatchesWhole(ValueAt(filter, i, TxtIdLike), record.id)

\* keywordOnlySearch filtered the full-text answer with a predicate
FilteredLocally ==
    /\ sPc = "done"
    /\ sOut.kind = "return"
    /\ sFilter.defined
    /\ \E i \in 1..Len(sLog) : sLog[i].op = "fullTextSearch"

\* C23: the local filter of the keyword fallback keeps a record exactly when
\* the predicate holds for it in the store: what the call returns is the
\* full-text answer's records in the predicate's scope, trimmed to limit
C23_LocalFilterAgreesWithStore ==
    FilteredLocally =>
        [i \in 1..Len(sOut.results) |-> sOut.results[i].record]
            = KeywordTrim(SelectSeq(sCands.fts, LAMBDA r : HoldsInStore(r, sFilter.value)),
                          LimitOf(sOpts))

\* the local filter and the store agree wherever the predicate holds one
\* condition
AgreesOnSingleCondition ==
    (FilteredLocally /\ (sOpts.path = <<>> \/ sOpts.filePattern = <<>>)) =>
        [i \in 1..Len(sOut.results) |-> sOut.results[i].record]
            = KeywordTrim(SelectSeq(sCands.fts, LAMBDA r : HoldsInStore(r, sFilter.value)),
                          LimitOf(sOpts))

\* C24: for every extension the chunker supports, the predicate that
\* buildSafeFilter produces for '*' + extension names the language that
\* the chunker's table gives files of that extension
C24_FilterNamesChunkerLanguage ==
    (/\ fOp = "buildSafeFilter"
     /\ fPath = <<>>
     /\ IsExtensionPattern(fPattern)
     /\ DropFirst(fPattern, 1) \in getSupportedExtensions)
        => fOut = Returned(TxtLanguageEq \o getLanguageByExtension(DropFirst(fPattern, 1))
                              \o TxtQuote)

\* the extensions for which the filter builder and the chunker name the same
\* language
AgreedExtensions ==
    {e[1] : e \in {x \in EXTENSION_TO_LANGUAGE : getLanguageByExtension(x[1]) = x[2]}}

\* where the two tables agree the predicate names the chunker's language
FilterNamesChunkerLanguageWhereTablesAgree ==
    (/\ fOp = "buildSafeFilter"
     /\ fPath = <<>>
     /\ IsExtensionPattern(fPattern)
     /\ ToLower(DropFirst(fPattern, 1)) \in AgreedExtensions)
        => fOut = Returned(TxtLanguageEq \o getLanguageByExtension(DropFirst(fPattern, 1))
                              \o TxtQuote)

\* the store.vectorSearch calls of the search, in order
VectorSearchCalls == SelectSeq(sLog, LAMBDA e : e.op = "vectorSearch")

\* a hybridSearch call went the vector path to its end
VectorPathDone ==
    /\ sFn \in {"hybridSearch", "legacyHybridSearch"}
    /\ sPc = "done"
    /\ sEmbed = "ok"
    /\ sOut.kind = "return"

\* C25: on the vector path hybridSearch calls vectorSearch exactly once, for
\* limit * candidateMultiplier candidates when reranking is enabled and for
\* limit when it is not, with the predicate built from the options, and with
\* none when neither path nor filePattern is given
C25_OneVectorSearchWithCandidateCount ==
    sFn \in {"hybridSearch", "legacyHybridSearch"} =>
        /\ Len(VectorSearchCalls) <= 1
        /\ VectorPathDone => Len(VectorSearchCalls) = 1
        /\ \A i \in 1..Len(VectorSearchCalls) :
              /\ VectorSearchCalls[i].k =
                    IF sOpts.useReranking
                    THEN LimitOf(sOpts) * sOpts.candidateMultiplier
                    ELSE LimitOf(sOpts)
              /\ VectorSearchCalls[i].filter = AsFilter(BuiltFilter)
              /\ (sOpts.path = <<>> /\ sOpts.filePattern = <<>>)
                    => VectorSearchCalls[i].filter = NoFilter

\* hybridSearch went the vector path without reranking, a multiplier above 1
\* and a filter option given
C25_Witness ==
    /\ VectorPathDone
    /\ sFn = "hybridSearch"
    /\ ~sOpts.useReranking
    /\ sOpts.candidateMultiplier > 1
    /\ Len(VectorSearchCalls) = 1
    /\ VectorSearchCalls[1].k = LimitOf(sOpts)
    /\ VectorSearchCalls[1].filter.defined

\* the reranker was invoked in this call
RerankInvoked == \E i \in 1..Len(sLog) : sLog[i].op = "rerank"

\* the reranker's invocation failed
RerankFailed == \E i \in 1..Len(sProgress) : sProgress[i] = "Reranking failed"

\* C26: the reranker is invoked only with reranking enabled and more
\* candidates than limit; when the invocation fails, hybridSearch returns the
\* first limit candidates in boosted order, none of them flagged fromFallback,
\* and does not throw
C26_RerankFailureKeepsBoostedOrder ==
    /\ RerankInvoked =>
          /\ sOpts.useReranking
          /\ Len(sCands.boosted) > LimitOf(sOpts)
    /\ (RerankFailed /\ sPc = "done") =>
          /\ sOut.kind = "return"
          /\ Len(sOut.results) = LimitOf(sOpts)
          /\ \A i \in 1..Len(sOut.results) :
                /\ sOut.results[i].record = sCands.boosted[i]
                /\ ~sOut.results[i].fromFallback

\* the reranker failed on candidates that boosting had reordered
C26_Witness ==
    /\ sFn = "hybridSearch"
    /\ sPc = "done"
    /\ RerankFailed
    /\ sOut.kind = "return"
    /\ Len(sOut.results) >= 1
    /\ Len(sCands.boosted) > Len(sOut.results)

\* the calls a search made of the embedder, the store's searches and the
\* reranker
ModelOrSearchCalls ==
    SelectSeq(sLog, LAMBDA e : e.op \in {"embedQuery", "vectorSearch", "fullTextSearch", "rerank"})

\* store.isEmpty() answers hybridSearch, the store being empty
EmptyStoreAnswers ==
    /\ sFn \in {"hybridSearch", "legacyHybridSearch"}
    /\ sPc = "h_isEmpty"
    /\ sPc' # sPc
    /\ isEmpty(store)

\* C27: when store.isEmpty() answers true, hybridSearch returns the empty
\* list and emits the 'index is empty' message, having called neither the
\* embedder nor vectorSearch, fullTextSearch or the reranker; the call is
\* over, so it calls none of them later either
C27_EmptyStoreShortCircuits ==
    [][EmptyStoreAnswers =>
          /\ sPc' = "done"
          /\ sOut' = SearchReturned(<<>>)
          /\ sProgress' = <<"Index is empty. Run indexing first.">>
          /\ ModelOrSearchCalls' = <<>>]_vars

\* a finished call makes no further call
DoneIsFinal == [][sPc = "done" => (sPc' = "done" /\ sLog' = sLog /\ sOut' = sOut)]_vars

\* hybridSearch was called on an empty store and has returned the empty list
\* after the one isEmpty call
C27_Witness ==
    /\ sFn = "hybridSearch"
    /\ sPc = "done"
    /\ isEmpty(store)
    /\ sOut = SearchReturned(<<>>)
    /\ Len(sLog) = 1
    /\ sLog[1].op = "isEmpty"

\* the loadLanguage calls that returned a grammar
ReturnedGrammar(c) == lCalls[c].pc = "done" /\ lCalls[c].error = "none"

\* C28: under any interleaving of loadLanguage calls each grammar file is
\* loaded and written into the cache at most once, every caller of a file
\* receives the same grammar object, and a file of which no load succeeded has
\* no cache entry
C28_GrammarLoadedOnce ==
    /\ \A file \in GrammarFiles : lLoads[file].made <= 1
    /\ \A c, d \in Loaders :
          (ReturnedGrammar(c) /\ ReturnedGrammar(d) /\ lCalls[c].file = lCalls[d].file)
              => lCalls[c].grammar = lCalls[d].grammar
    /\ \A file \in GrammarFiles : lLoads[file].made = 0 => languageCache[file] = 0

\* a call that finds the file cached returns the cached grammar and loads
\* nothing; a failed load writes no cache entry
CachedGrammarIsReused ==
    [][\A c \in Loaders :
          /\ (lCalls[c].pc = "idle" /\ lCalls'[c].pc = "done")
                => (lCalls'[c].grammar = languageCache[lCalls'[c].file] /\ lLoads' = lLoads)
          /\ (lCalls[c].error = "none" /\ lCalls'[c].error # "none")
                => languageCache' = languageCache]_vars

\* the call made on this step, when one is
CallMade == cLog'[Len(cLog')]

\* this step is set(k, v) for a key the Map holds
SetsHeldKey(k) ==
    /\ Len(cLog') = Len(cLog) + 1
    /\ CallMade.op = "set"
    /\ CallMade.key = k
    /\ MapHas(cMap, k)

\* C29: set(k, v) for a key the cache holds replaces its value and makes k
\* the most recently used entry; no other key is evicted, also at capacity,
\* and the size is unchanged
C29_SetOfHeldKeyEvictsNothing ==
    [][\A k \in CacheKeys :
          SetsHeldKey(k) =>
              /\ cMap'[Len(cMap')].key = k
              /\ cMap'[Len(cMap')].value = CallMade.value
              /\ Len(cMap') = Len(cMap)
              /\ MapDelete(cMap', k) = MapDelete(cMap, k)]_vars

\* a cache of capacity 2 holding two keys had the older one set again: it now
\* comes last, and both keys are held
C29_Witness ==
    /\ cMax = 2
    /\ Len(cLog) = 3
    /\ \A i \in 1..3 : cLog[i].op = "set"
    /\ cLog[3].key = cLog[1].key
    /\ cLog[2].key # cLog[1].key
    /\ cLog[3].value # cLog[1].value
    /\ Len(cMap) = 2
    /\ cMap[1].key = cLog[2].key
    /\ cMap[2].key = cLog[3].key
    /\ cMap[2].value = cLog[3].value

\* the sets of key among the calls before call i
SetsBefore(key, i) == {j \in 1..(i - 1) : cLog[j].op = "set" /\ cLog[j].key = key}

\* the time of the last of them
LastSetAt(key, i) ==
    cLog[CHOOSE j \in SetsBefore(key, i) : \A other \in SetsBefore(key, i) : other <= j].setAt

\* this step is a get or has of a cache with a TTL
ReadsWithTtl ==
    /\ cTtl.defined
    /\ Len(cLog') = Len(cLog) + 1
    /\ CallMade.op \in {"get", "has"}

\* C30: with a TTL t, get and has report a key only when its last set is at
\* most t old, whatever hits came in between; a get or has that reports the
\* key absent leaves no entry of it; and a get hit moves the entry last
\* without changing the time it was set at
C30_HitsWithinTtlOfLastSet ==
    [][ReadsWithTtl =>
          /\ CallMade.hit =>
                /\ SetsBefore(CallMade.key, Len(cLog')) # {}
                /\ cNow - LastSetAt(CallMade.key, Len(cLog')) <= cTtl.ms
          /\ ~CallMade.hit => ~MapHas(cMap', CallMade.key)
          /\ (CallMade.hit /\ CallMade.op = "get") =>
                /\ cMap'[Len(cMap')].key = CallMade.key
                /\ cMap'[Len(cMap')].timestamp = LastSetAt(CallMade.key, Len(cLog'))]_vars

\* with a TTL of one millisecond, a key set at time 0 was read with a hit
\* and, with no set since, found expired at time 2
C30_Witness ==
    /\ cTtl = Ttl(1)
    /\ cNow = 2
    /\ Len(cLog) = 3
    /\ cLog[1].op = "set" /\ cLog[1].setAt = 0
    /\ cLog[2].op = "get" /\ cLog[2].hit /\ cLog[2].key = cLog[1].key
    /\ cLog[3].op \in {"get", "has"} /\ ~cLog[3].hit /\ cLog[3].key = cLog[1].key
    /\ ~MapHas(cMap, cLog[1].key)

====
